---- MODULE Spec2Model ----
(***************************************************************************)
(* Model of the SQL repair pipeline of sql_repair_fixed.py and of its      *)
(* second caller cli_interactive.sql_repair_mode: the value sanitizer, the *)
(* value tokenizer and projector (extract_filtered_values), the statement  *)
(* reconstructor (extract_insert_statements) and the schema edit.          *)
(*                                                                         *)
(* A Python str is a sequence of one-character strings; None is a          *)
(* one-element sequence that no str can equal.                             *)
(***************************************************************************)
EXTENDS Integers, Sequences, FiniteSets, TLC

VARIABLES
    pc,              \* position of the running operation
    \* sanitize_sql_value_with_type
    value,           \* its argument value
    column_type,     \* its argument column_type
    sanitized,       \* its return value
    \* extract_filtered_values
    value_block,     \* argument, then the tuple interior
    kept_indices,    \* argument
    column_types,    \* argument
    i,               \* scan position (0-based)
    values,          \* fields found so far
    current_value,   \* field being accumulated
    in_quotes,
    quote_char,
    brace_depth,
    paren_depth,
    filtered_values,
    tuple_text,      \* its return value
    \* extract_insert_statements (kept_indices and column_types are also its arguments)
    sql_text,        \* argument
    table_name,      \* argument
    column_names,    \* argument
    max_values,      \* argument, reassigned by the limit step
    lines,           \* sql_text.splitlines()
    line_num,        \* lines read so far
    existing_inserts,  \* entries [text, line]: the statement and its source line
    values_only,       \* entries [text, line]: the tuple and its source line
    insert_statements, \* entries [text, kind, line]
    insert_sql,      \* its return value
    \* the repair run: interactive_edit and its two callers
    entry,           \* "main" (sql_repair_fixed.main) or "cli" (sql_repair_mode)
    columns,         \* parsed (name, type) pairs
    selected_to_remove,  \* the choice numbers the user ticked, in selection order
    indices_to_remove,
    filtered_columns,
    edited_columns,
    new_table_name,
    \* parse_create_table, build_create_table_sql and the corrected file
    parsed,          \* return value of parse_create_table, or ValueError
    corrected_sql,   \* return value of build_create_table_sql
    out_file,        \* the chunks written to the corrected file; empty while absent
    \* create_sqlite_from_sql and create_postgres_from_sql
    sink,            \* "sqlite" or "postgres"
    total_statements,  \* statements to execute
    failing,         \* positions (1-based) of the statements the database rejects
    executed,        \* statements executed without error
    errors,          \* statements that raised
    logged,          \* error lines printed
    pending,         \* statements executed and not yet committed
    committed,       \* statements committed
    sink_result,     \* "running", then "ok" (a database was made) or "failed"
    has_create,      \* the file has a CREATE TABLE statement
    conn_open,       \* database connections open
    \* ask_processing_option and ask_sqlite_processing_option
    asker,           \* "values" or "sqlite": which of the two is running
    total_values,    \* argument of ask_processing_option
    selection,       \* the option the user chose
    ask_result,      \* <<n>> when n was returned, <<>> when nothing was
    \* create_postgres_from_sql on the corrected file
    max_inserts,     \* argument
    inserts,         \* the INSERT statements it found in the file
    \* detect_header
    csv_text,        \* the decoded text of the file at csv_path
    readable,        \* the file can be opened and read
    header,          \* its return value: <<0>> for 0, <<>> for None
    \* extract_name_from_linkedin_url
    url,             \* argument
    linkedin_name,   \* its return value
    \* sanitize_name
    person_name,     \* argument name
    sanitized_name,  \* its return value
    \* convert_to_sql of CSVToSQLConverter and of CustomCSVToSQLConverter
    converter,       \* "base" or "custom": the class of self
    csv_rows,        \* the rows of the CSV file: "ok", or "raises" when its conversion raises
    chunk_size,      \* argument
    max_rows,        \* argument; 0 for None
    read_error,      \* the chunk whose read raises; 0 when none does
    chunks_read,     \* chunks the chunk iterator has given
    row_pos,         \* rows the row loop has taken so far
    processed_rows,  \* local processed_rows
    error_count,     \* self.error_count
    total_chunks,    \* local total_chunks
    skipped_lines,   \* self.skipped_lines
    sql_file,        \* what was written to the SQL file, one entry per write
    success_rate,    \* local success_rate as <<numerator, denominator>>; <<>> before it is set
    csv_result       \* "running", then "returned" or "raised"

sanVars == <<value, column_type, sanitized>>
tokVars == <<value_block, kept_indices, column_types, i, values, current_value,
             in_quotes, quote_char, brace_depth, paren_depth, filtered_values,
             tuple_text>>
recVars == <<sql_text, table_name, column_names, max_values, lines, line_num,
             existing_inserts, values_only, insert_statements, insert_sql>>
runVars == <<entry, columns, selected_to_remove, indices_to_remove, filtered_columns,
             edited_columns, new_table_name>>
fileVars == <<parsed, corrected_sql, out_file>>
sinkVars == <<sink, total_statements, failing, executed, errors, logged, pending,
              committed, sink_result, has_create, conn_open>>
askVars == <<asker, total_values, selection, ask_result>>
loadVars == <<max_inserts, inserts>>
headVars == <<csv_text, readable, header>>
linkVars == <<url, linkedin_name>>
nameVars == <<person_name, sanitized_name>>
csvVars == <<converter, csv_rows, chunk_size, max_rows, read_error, chunks_read,
             row_pos, processed_rows, error_count, total_chunks, skipped_lines, sql_file,
             success_rate, csv_result>>
auxVars == <<askVars, loadVars, headVars, linkVars, nameVars, csvVars>>
vars == <<pc, sanVars, tokVars, recVars, runVars, fileVars, sinkVars, auxVars>>

-----------------------------------------------------------------------------
(* Python values *)

None == <<"None">>
\* None where a list of int, and where a list of str, is expected
NoneList == <<-1>>
NoneTypes == <<None>>
NoQuote == "None"

SQ == "'"
DQ == "\""
BS == "\\"
NL == "\n"
TAB == "\t"
CR == "\r"
\* \x01, one of [\x00-\x08\x0e-\x1f\x7f]; \x80 and \x85, two of [\x80-\x9f],
\* of which \x85 (NEL) is also white space to str.strip and to \s
CTRL == "^A"
XCTRL == "^x80"
NEL == "^x85"

WhiteSpace == {" ", NL, TAB, CR, NEL}
Digits == {"0", "1", "2", "3", "4", "5", "6", "7", "8", "9"}
LowerLetters == <<"a","b","c","d","e","f","g","h","i","j","k","l","m",
                  "n","o","p","q","r","s","t","u","v","w","x","y","z">>
UpperLetters == <<"A","B","C","D","E","F","G","H","I","J","K","L","M",
                  "N","O","P","Q","R","S","T","U","V","W","X","Y","Z">>

\* str.upper on one character
UpperChar(c) ==
    IF \E k \in 1..26 : LowerLetters[k] = c
    THEN UpperLetters[CHOOSE k \in 1..26 : LowerLetters[k] = c]
    ELSE c

\* str.lower on one character
LowerChar(c) ==
    IF \E k \in 1..26 : UpperLetters[k] = c
    THEN LowerLetters[CHOOSE k \in 1..26 : UpperLetters[k] = c]
    ELSE c

LowerAsIs(s) == s

\* str.lower
Lower(s) == [k \in 1..Len(s) |-> LowerChar(s[k])]

UpperAsIs(s) == s

\* str.upper
Upper(s) == [k \in 1..Len(s) |-> UpperChar(s[k])]

\* s[a:b] with 0-based Python bounds already clipped to 0..len
Slice(s, a, b) == IF b <= a THEN <<>> ELSE SubSeq(s, a + 1, b)

RECURSIVE LStrip(_)
LStrip(s) ==
    IF s # <<>> /\ s[1] \in WhiteSpace THEN LStrip(Tail(s)) ELSE s

RECURSIVE RStrip(_)
RStrip(s) ==
    IF s # <<>> /\ s[Len(s)] \in WhiteSpace
    THEN RStrip(SubSeq(s, 1, Len(s) - 1))
    ELSE s

\* str.strip()
Strip(s) == RStrip(LStrip(s))

\* str.startswith / str.endswith
StartsWith(s, p) == Len(s) >= Len(p) /\ SubSeq(s, 1, Len(p)) = p
EndsWith(s, p) == Len(s) >= Len(p) /\ SubSeq(s, Len(s) - Len(p) + 1, Len(s)) = p

\* p in s
Contains(s, p) == \E k \in 0..(Len(s) - Len(p)) : SubSeq(s, k + 1, k + Len(p)) = p

\* s.replace(c, "") for a set of characters
RECURSIVE RemoveChars(_, _)
RemoveChars(s, cs) ==
    IF s = <<>> THEN <<>>
    ELSE IF s[1] \in cs THEN RemoveChars(Tail(s), cs)
    ELSE <<s[1]>> \o RemoveChars(Tail(s), cs)

\* sep.join(parts)
RECURSIVE Join(_, _)
Join(parts, sep) ==
    IF parts = <<>> THEN <<>>
    ELSE IF Len(parts) = 1 THEN parts[1]
    ELSE parts[1] \o sep \o Join(Tail(parts), sep)

S_NULL == <<"N", "U", "L", "L">>
S_INT == <<"I", "N", "T">>
S_DECIMAL == <<"D", "E", "C", "I", "M", "A", "L">>
S_FLOAT == <<"F", "L", "O", "A", "T">>
S_REAL == <<"R", "E", "A", "L">>
S_NUMERIC == <<"N", "U", "M", "E", "R", "I", "C">>
S_TEXT == <<"T", "E", "X", "T">>
S_imported_data == <<"i","m","p","o","r","t","e","d","_","d","a","t","a">>

-----------------------------------------------------------------------------
(* sanitize_sql_value_with_type *)

NumTypes == {S_INT, S_DECIMAL, S_FLOAT, S_REAL, S_NUMERIC}

\* length of the longest prefix of s made of digits: \d+ / \d*
RECURSIVE DigitRun(_)
DigitRun(s) ==
    IF s # <<>> /\ s[1] \in Digits THEN 1 + DigitRun(Tail(s)) ELSE 0

\* the whole of s matches (?:\d+\.?\d*|\.\d+)
FullNumberBody(s) ==
    LET n == DigitRun(s)
        rest == Slice(s, n, Len(s))
    IN  \/ /\ n >= 1
           /\ \/ rest = <<>>
              \/ /\ rest[1] = "."
                 /\ DigitRun(Tail(rest)) = Len(rest) - 1
        \/ /\ s # <<>>
           /\ s[1] = "."
           /\ Len(s) >= 2
           /\ DigitRun(Tail(s)) = Len(s) - 1

\* the whole of s matches [-+]?(?:\d+\.?\d*|\.\d+)
FullNumber(s) ==
    \/ FullNumberBody(s)
    \/ s # <<>> /\ s[1] \in {"-", "+"} /\ FullNumberBody(Tail(s))

\* re.match(r"^[-+]?(?:\d+\.?\d*|\.\d+)$", s): without re.MULTILINE, $ matches
\* at the end of the string and also just before a newline that ends it
NumberWithTrailingNewline(s) ==
    s # <<>> /\ s[Len(s)] = NL /\ FullNumber(SubSeq(s, 1, Len(s) - 1))

NumberMatch(s) == FullNumber(s) \/ NumberWithTrailingNewline(s)

\* value[1:-1] when the value starts and ends with the same quote character
StripQuotes(v) ==
    IF \/ StartsWith(v, <<SQ>>) /\ EndsWith(v, <<SQ>>)
       \/ StartsWith(v, <<DQ>>) /\ EndsWith(v, <<DQ>>)
    THEN Slice(v, 1, Len(v) - 1)
    ELSE v

IsNumericTypeExact(t) ==
    /\ t # None
    /\ t # <<>>
    /\ \E nt \in NumTypes : Contains(t, nt)

\* column_type and any(num_type in column_type.upper() for ...)
IsNumericType(t) ==
    /\ t # None
    /\ t # <<>>
    /\ \E nt \in NumTypes : Contains(Upper(t), nt)

\* value.replace("\n", " "), ("\r", " "), ("\t", " ")
BlankLineBreaks(s) ==
    [k \in 1..Len(s) |-> IF s[k] \in {NL, CR, TAB} THEN " " ELSE s[k]]

\* re.sub(r"\s+", " ", value)
RECURSIVE CollapseSpaces(_)
CollapseSpaces(s) ==
    IF s = <<>> THEN <<>>
    ELSE IF s[1] \in WhiteSpace
    THEN <<" ">> \o CollapseSpaces(LStrip(s))
    ELSE <<s[1]>> \o CollapseSpaces(Tail(s))

MaxStrLen == 65535

\* value[:65535] when longer
Truncate(s) == IF Len(s) > MaxStrLen THEN SubSeq(s, 1, MaxStrLen) ELSE s

\* value.replace("'", "") then value.replace('"', "")
DropQuotes(s) == RemoveChars(RemoveChars(s, {SQ}), {DQ})

\* steps 1 to 5 of the string branch
CleanString(v) ==
    LET a == RemoveChars(v, {CTRL})
        b == RemoveChars(a, {XCTRL, NEL})
        c == BlankLineBreaks(b)
        d == CollapseSpaces(c)
        e == Strip(d)
        f == Truncate(e)
    IN  DropQuotes(f)

sanitize_sql_value_with_type(v, t) ==
    IF v = None \/ v = <<>> \/ Strip(v) = <<>>
    THEN S_NULL
    ELSE LET v1 == Strip(v) IN
         IF Upper(v1) = S_NULL
         THEN S_NULL
         ELSE LET v2 == StripQuotes(v1) IN
              IF IsNumericType(t) /\ NumberMatch(v2) THEN v2
              ELSE IF t = None /\ NumberMatch(v2) THEN v2
              ELSE <<SQ>> \o CleanString(v2) \o <<SQ>>

-----------------------------------------------------------------------------
(* extract_filtered_values: the tokenizer scan and the projection *)

\* value_block.strip(), then [1:-1] when it starts with ( and ends with )
Unwrap(block) ==
    LET b == Strip(block) IN
    IF StartsWith(b, <<"(">>) /\ EndsWith(b, <<")">>)
    THEN Slice(b, 1, Len(b) - 1)
    ELSE b

\* the locals of the scan before its first character
ScanInit ==
    [values |-> <<>>, current_value |-> <<>>, in_quotes |-> FALSE,
     quote_char |-> NoQuote, brace_depth |-> 0, paren_depth |-> 0]

\* char in ["'", '"'] and (i == 0 or value_block[i - 1] != "\\")
IsUnescapedQuote(block, k) ==
    /\ block[k + 1] \in {SQ, DQ}
    /\ (k = 0 \/ block[k] # BS)

SplitsAtIgnoringParens(inq, bd, pd) == ~inq /\ bd = 0

\* the last branch's guard: not in_quotes and brace_depth == 0 and paren_depth == 0
SplitsAt(inq, bd, pd) == ~inq /\ bd = 0 /\ pd = 0

\* one iteration of the while loop on the character at 0-based position k
ScanChar(st, block, k) ==
    LET char == block[k + 1]
        kept == [st EXCEPT !.current_value = Append(st.current_value, char)]
    IN  IF IsUnescapedQuote(block, k)
        THEN IF ~st.in_quotes
             THEN [kept EXCEPT !.in_quotes = TRUE, !.quote_char = char]
             ELSE IF char = st.quote_char
             THEN [kept EXCEPT !.in_quotes = FALSE, !.quote_char = NoQuote]
             ELSE kept
        ELSE IF char = "{" THEN [kept EXCEPT !.brace_depth = st.brace_depth + 1]
        ELSE IF char = "}" THEN [kept EXCEPT !.brace_depth = st.brace_depth - 1]
        ELSE IF char = "(" THEN [kept EXCEPT !.paren_depth = st.paren_depth + 1]
        ELSE IF char = ")" THEN [kept EXCEPT !.paren_depth = st.paren_depth - 1]
        ELSE IF char = "," /\ SplitsAt(st.in_quotes, st.brace_depth, st.paren_depth)
        THEN [st EXCEPT !.values = Append(st.values, Strip(st.current_value)),
                        !.current_value = <<>>]
        ELSE kept

\* after the loop: if current_value.strip(): values.append(current_value.strip())
AppendLast(vals, cur) ==
    IF Strip(cur) # <<>> THEN Append(vals, Strip(cur)) ELSE vals

RECURSIVE ScanFrom(_, _, _)
ScanFrom(st, block, k) ==
    IF k >= Len(block) THEN st ELSE ScanFrom(ScanChar(st, block, k), block, k + 1)

\* the values list of extract_filtered_values for an argument value_block
TokenizeBlock(block) ==
    LET inner == Unwrap(block)
        st == ScanFrom(ScanInit, inner, 0)
    IN  AppendLast(st.values, st.current_value)

\* column_types[i] if column_types and i < len(column_types) else None
TypeAt(types, k) ==
    IF types # NoneTypes /\ types # <<>> /\ k < Len(types) THEN types[k + 1] ELSE None

ProjectedEntryShifted(vals, idx, t) ==
    IF idx + 1 < Len(vals)
    THEN sanitize_sql_value_with_type(vals[idx + 2], t)
    ELSE S_NULL

\* the body of the projection loop for one retained index
ProjectedEntry(vals, idx, t) ==
    IF idx < Len(vals)
    THEN sanitize_sql_value_with_type(vals[idx + 1], t)
    ELSE S_NULL

RECURSIVE ProjectFrom(_, _, _, _)
ProjectFrom(vals, kept, types, k) ==
    IF k >= Len(kept) THEN <<>>
    ELSE <<ProjectedEntry(vals, kept[k + 1], TypeAt(types, k))>>
         \o ProjectFrom(vals, kept, types, k + 1)

\* f"({', '.join(filtered_values)})"
TupleText(fv) == <<"(">> \o Join(fv, <<",", " ">>) \o <<")">>

extract_filtered_values(block, kept, types) ==
    TupleText(ProjectFrom(TokenizeBlock(block), kept, types, 0))

-----------------------------------------------------------------------------
(* extract_insert_statements *)

S_INSERT_INTO == <<"I","N","S","E","R","T"," ","I","N","T","O">>
S_VALUES == <<"V","A","L","U","E","S">>

LineBreaks == {NL, CR, NEL}

\* str.splitlines(): the text cut at each line break (\r\n is one break), with no
\* empty last line after a final break
RECURSIVE SplitLines(_)
SplitLines(s) ==
    LET breaks == {k \in 1..Len(s) : s[k] \in LineBreaks} IN
    IF s = <<>> THEN <<>>
    ELSE IF breaks = {} THEN <<s>>
    ELSE LET k == CHOOSE x \in breaks : \A y \in breaks : x <= y
             w == IF s[k] = CR /\ k < Len(s) /\ s[k + 1] = NL THEN 2 ELSE 1
         IN  <<SubSeq(s, 1, k - 1)>> \o SplitLines(SubSeq(s, k + w, Len(s)))

\* number of white space characters of s from 0-based position k on: \s*
RECURSIVE SpaceRun(_, _)
SpaceRun(s, k) ==
    IF k < Len(s) /\ s[k + 1] \in WhiteSpace THEN 1 + SpaceRun(s, k + 1) ELSE 0

\* number of digits of s from 0-based position k on: \d+
RECURSIVE DigitRunAt(_, _)
DigitRunAt(s, k) ==
    IF k < Len(s) /\ s[k + 1] \in Digits THEN 1 + DigitRunAt(s, k + 1) ELSE 0

\* 0-based positions of the character c in s
PositionsOf(s, c) == {k \in 0..(Len(s) - 1) : s[k + 1] = c}

Max(S) == CHOOSE x \in S : \A y \in S : y <= x
Min(S) == CHOOSE x \in S : \A y \in S : x <= y
MinOf(a, b) == IF a <= b THEN a ELSE b

\* where VALUES\s*\( matches at 0-based position p (re.IGNORECASE): the position
\* of the opening parenthesis, or -1
OpenAfterValues(s, p) ==
    IF p + 6 <= Len(s) /\ s[p + 1] \in {"V", "v"} /\ Upper(SubSeq(s, p + 1, p + 6)) = S_VALUES
    THEN LET q == p + 6 + SpaceRun(s, p + 6) IN
         IF q < Len(s) /\ s[q + 1] = "(" THEN q ELSE -1
    ELSE -1

\* 0-based position of the last closing parenthesis of s, or -1
LastClose(s) == IF PositionsOf(s, ")") = {} THEN -1 ELSE Max(PositionsOf(s, ")"))

\* start positions at which VALUES\s*(\(.*\)) matches: after the opening
\* parenthesis some closing one follows (re.DOTALL: .* crosses anything)
ValuesMatchStarts(s) ==
    LET last == LastClose(s) IN
    {p \in 0..(Len(s) - 1) :
        LET q == OpenAfterValues(s, p) IN q >= 0 /\ last > q}

ValuesBlockShortest(s) ==
    LET starts == ValuesMatchStarts(s) IN
    IF starts = {} THEN None
    ELSE LET q == OpenAfterValues(s, Min(starts))
             r == Min({x \in PositionsOf(s, ")") : x > q})
         IN  Slice(s, q, r + 1)

\* re.search(r"VALUES\s*(\(.*\))", s, re.IGNORECASE | re.DOTALL): group 1 of the
\* leftmost match, .* greedy up to the last closing parenthesis; None without match
ValuesBlock(s) ==
    LET starts == ValuesMatchStarts(s) IN
    IF starts = {} THEN None
    ELSE LET q == OpenAfterValues(s, Min(starts)) IN
         Slice(s, q, LastClose(s) + 1)

\* re.match(r"^\(\s*(\d+)\s*,", s)
TupleHeadMatch(s) ==
    /\ s # <<>>
    /\ s[1] = "("
    /\ LET a == 1 + SpaceRun(s, 1)
           d == DigitRunAt(s, a)
           b == a + d + SpaceRun(s, a + d)
       IN  d >= 1 /\ b < Len(s) /\ s[b + 1] = ","

MinTupleLen == 10

\* len(stripped) > 10
LongEnough(s) == Len(s) > MinTupleLen

\* f"INSERT INTO {table_name} ({columns_str}) VALUES {values};"
InsertText(table, names, vals) ==
    S_INSERT_INTO \o <<" ">> \o table \o <<" ", "(">> \o Join(names, <<",", " ">>)
        \o <<")", " ">> \o S_VALUES \o <<" ">> \o vals \o <<";">>

\* one iteration of the scan over the lines: the entry it appends, if any
\*   kind "insert": text is the re-targeted statement
\*   kind "values": text is clean_line
\*   kind "skip": nothing is appended
ClassifyLine(line, table, names) ==
    LET stripped == Strip(line) IN
    IF StartsWith(Upper(stripped), S_INSERT_INTO)
    THEN LET values_part == ValuesBlock(stripped) IN
         IF values_part # None
         THEN [kind |-> "insert", text |-> InsertText(table, names, values_part)]
         ELSE [kind |-> "skip", text |-> <<>>]
    ELSE IF StartsWith(stripped, <<"(">>) /\ LongEnough(stripped) /\ TupleHeadMatch(stripped)
    THEN [kind |-> "values",
          text |-> IF EndsWith(stripped, <<",">>)
                   THEN Slice(stripped, 0, Len(stripped) - 1)
                   ELSE stripped]
    ELSE [kind |-> "skip", text |-> <<>>]

SmallFile == 100

\* ask_processing_option(total_values) for total_values <= 100: no prompt, 0
ask_processing_option(total) == 0

\* max_values after "if max_values == 0 and len(values_only) > 0"
ResolvedLimit(max, vo) ==
    IF max = 0 /\ Len(vo) > 0 THEN ask_processing_option(Len(vo)) ELSE max

\* values_only[:max_values] when max_values > 0 and there are more
Limited(vo, max) ==
    IF max > 0 /\ Len(vo) > max THEN SubSeq(vo, 1, max) ELSE vo

\* if kept_indices: (None and the empty list take the else branch)
HasKept(kept) == kept # NoneList /\ kept # <<>>

\* the statement built from one bare tuple
TupleInsertText(block, table, names, kept, types) ==
    IF HasKept(kept)
    THEN InsertText(table, names, extract_filtered_values(block, kept, types))
    ELSE InsertText(table, names, block)

\* the scan over the lines from 0-based line k on: [ex, vo] with the entries of
\* existing_inserts and values_only
RECURSIVE ScanLinesFrom(_, _, _, _, _)
ScanLinesFrom(ls, k, table, names, acc) ==
    IF k >= Len(ls) THEN acc
    ELSE LET c == ClassifyLine(ls[k + 1], table, names)
             e == [text |-> c.text, line |-> k + 1]
         IN  ScanLinesFrom(ls, k + 1, table, names,
                 IF c.kind = "insert" THEN [acc EXCEPT !.ex = Append(acc.ex, e)]
                 ELSE IF c.kind = "values" THEN [acc EXCEPT !.vo = Append(acc.vo, e)]
                 ELSE acc)

\* the entry of insert_statements for an entry of existing_inserts
FromExisting(e) == [text |-> e.text, kind |-> "insert", line |-> e.line]

\* the entry of insert_statements for an entry of values_only
FromTuple(e, table, names, kept, types) ==
    [text |-> TupleInsertText(e.text, table, names, kept, types),
     kind |-> "values", line |-> e.line]

\* the entries of insert_statements when the function returns
StatementsOf(text, table, names, max, kept, types) ==
    LET sc == ScanLinesFrom(SplitLines(text), 0, table, names, [ex |-> <<>>, vo |-> <<>>])
        vo == Limited(sc.vo, ResolvedLimit(max, sc.vo))
    IN  [k \in 1..Len(sc.ex) |-> FromExisting(sc.ex[k])]
        \o [k \in 1..Len(vo) |-> FromTuple(vo[k], table, names, kept, types)]

Texts(entries) == [k \in 1..Len(entries) |-> entries[k].text]

\* "\n".join(insert_statements)
extract_insert_statements(text, table, names, max, kept, types) ==
    Join(Texts(StatementsOf(text, table, names, max, kept, types)), <<NL>>)

AddStatementByLine(stmts, e) ==
    LET before == SelectSeq(stmts, LAMBDA x : x.line < e.line)
        after == SelectSeq(stmts, LAMBDA x : x.line >= e.line)
    IN  before \o <<e>> \o after

\* insert_statements.append(insert_sql)
AddStatement(stmts, e) == Append(stmts, e)

-----------------------------------------------------------------------------
(* interactive_edit and the retained indices *)

\* index = int(selected.split(".")[0]) - 1 for each ticked choice "<n>. name (type)"
RemovedIndices(sel) == {sel[k] - 1 : k \in 1..Len(sel)}

RECURSIVE FilterColumnsFrom(_, _, _)
FilterColumnsFrom(cols, removed, k) ==
    IF k >= Len(cols) THEN <<>>
    ELSE (IF k \in removed THEN <<>> ELSE <<cols[k + 1]>>)
         \o FilterColumnsFrom(cols, removed, k + 1)

FilterColumnsReversed(cols, removed) ==
    LET kept == FilterColumnsFrom(cols, removed, 0) IN
    [k \in 1..Len(kept) |-> kept[Len(kept) + 1 - k]]

\* [col for i, col in enumerate(columns) if i not in indices_to_remove]
FilterColumns(cols, removed) == FilterColumnsFrom(cols, removed, 0)

RECURSIVE KeptIndicesFrom(_, _, _)
KeptIndicesFrom(n, removed, k) ==
    IF k >= n THEN <<>>
    ELSE (IF k \in removed THEN <<>> ELSE <<k>>) \o KeptIndicesFrom(n, removed, k + 1)

\* [i for i in range(len(columns)) if i not in indices_to_remove]
KeptIndices(n, removed) == KeptIndicesFrom(n, removed, 0)

-----------------------------------------------------------------------------
(* parse_create_table and parse_from_values *)

S_CREATE == <<"C","R","E","A","T","E">>
S_TABLE == <<"T","A","B","L","E">>
S_IF == <<"I","F">>
S_NOT == <<"N","O","T">>
S_EXISTS == <<"E","X","I","S","T","S">>
S_VARCHAR255 == <<"V","A","R","C","H","A","R","(","2","5","5",")">>
\* the backtick character
BT == "^bt"

\* \w on ASCII text
WordChars ==
    Digits \cup {"_"} \cup {LowerLetters[k] : k \in 1..26} \cup {UpperLetters[k] : k \in 1..26}

\* number of word characters of s from 0-based position k on: \w+
RECURSIVE WordRun(_, _)
WordRun(s, k) ==
    IF k < Len(s) /\ s[k + 1] \in WordChars THEN 1 + WordRun(s, k + 1) ELSE 0

\* the literal w matches at 0-based position p, ignoring case
WordAt(s, p, w) ==
    p + Len(w) <= Len(s) /\ Upper(SubSeq(s, p + 1, p + Len(w))) = w

\* where <w>\s+ matches at 0-based position p: the position after it, or -1
AfterWord(s, p, w) ==
    IF p >= 0 /\ WordAt(s, p, w) /\ SpaceRun(s, p + Len(w)) >= 1
    THEN p + Len(w) + SpaceRun(s, p + Len(w))
    ELSE -1

\* the target of (.*?)\) : the nearest closing parenthesis after position o, or -1
FirstCloseAfter(s, o) ==
    LET cs == {x \in PositionsOf(s, ")") : x > o} IN
    IF cs = {} THEN -1 ELSE Min(cs)

\* (\w+)\s*\((.*?)\) at 0-based position r: the two groups, or no match
NameAndBody(s, r) ==
    LET w == IF r >= 0 THEN WordRun(s, r) ELSE 0
        o == r + w + SpaceRun(s, r + w)
        c == FirstCloseAfter(s, o)
    IN  IF r >= 0 /\ w >= 1 /\ o < Len(s) /\ s[o + 1] = "(" /\ c >= 0
        THEN [found |-> TRUE, name |-> Slice(s, r, r + w), body |-> Slice(s, o + 1, c)]
        ELSE [found |-> FALSE, name |-> <<>>, body |-> <<>>]

\* CREATE\s+TABLE\s+(?:IF\s+NOT\s+EXISTS\s+)?(\w+)\s*\((.*?)\);? at position p:
\* the optional group is tried first, then skipped
CreateMatchAt(s, p) ==
    LET r == AfterWord(s, AfterWord(s, p, S_CREATE), S_TABLE)
        r2 == AfterWord(s, AfterWord(s, AfterWord(s, r, S_IF), S_NOT), S_EXISTS)
        opt == NameAndBody(s, r2)
    IN  IF opt.found THEN opt ELSE NameAndBody(s, r)

\* re.search(..., re.IGNORECASE | re.DOTALL): the leftmost match
create_match(s) ==
    LET starts == {p \in PositionsOf(s, "C") \cup PositionsOf(s, "c") :
                      CreateMatchAt(s, p).found}
    IN  IF starts = {} THEN [found |-> FALSE, name |-> <<>>, body |-> <<>>]
        ELSE CreateMatchAt(s, Min(starts))

\* s.split(c): the pieces between the occurrences of c, at least one piece
RECURSIVE SplitOn(_, _)
SplitOn(s, c) ==
    LET ps == PositionsOf(s, c) IN
    IF ps = {} THEN <<s>>
    ELSE <<Slice(s, 0, Min(ps))>> \o SplitOn(Slice(s, Min(ps) + 1, Len(s)), c)

\* s.rstrip(chars) and s.strip(chars)
RECURSIVE RStripChars(_, _)
RStripChars(s, cs) ==
    IF s # <<>> /\ s[Len(s)] \in cs THEN RStripChars(SubSeq(s, 1, Len(s) - 1), cs) ELSE s

RECURSIVE LStripChars(_, _)
LStripChars(s, cs) ==
    IF s # <<>> /\ s[1] \in cs THEN LStripChars(Tail(s), cs) ELSE s

StripChars(s, cs) == RStripChars(LStripChars(s, cs), cs)

\* s.split(): the runs of characters that are not white space
RECURSIVE SplitWords(_)
SplitWords(s) ==
    LET t == LStrip(s)
        sp == {k \in 1..Len(t) : t[k] \in WhiteSpace}
    IN  IF t = <<>> THEN <<>>
        ELSE IF sp = {} THEN <<t>>
        ELSE <<SubSeq(t, 1, Min(sp) - 1)>> \o SplitWords(SubSeq(t, Min(sp), Len(t)))

\* line.strip().rstrip(",") for a line of the CREATE TABLE body
BodyLine(line) == RStripChars(Strip(line), {","})

\* if line and not line.startswith("--")
IsColumnLine(line) == line # <<>> /\ ~StartsWith(line, <<"-", "-">>)

\* the pair appended for one column line
ColumnOf(line) ==
    LET parts == SplitWords(line) IN
    IF Len(parts) >= 2
    THEN <<parts[1], Join(Tail(parts), <<" ">>)>>
    ELSE <<line, S_TEXT>>

\* the loop over columns_text.strip().split("\n")
RECURSIVE ColumnsFrom(_)
ColumnsFrom(ls) ==
    IF ls = <<>> THEN <<>>
    ELSE LET line == BodyLine(Head(ls)) IN
         (IF IsColumnLine(line) THEN <<ColumnOf(line)>> ELSE <<>>) \o ColumnsFrom(Tail(ls))

BodyColumns(columns_text) == ColumnsFrom(SplitOn(Strip(columns_text), NL))

\* what a parse returns: the pair, or the ValueError it raises
Returned(name, cols) == [raised |-> FALSE, table_name |-> name, columns |-> cols]
ValueError == [raised |-> TRUE, table_name |-> None, columns |-> <<>>]
NotParsed == [raised |-> FALSE, table_name |-> None, columns |-> <<>>]

\* [line.strip() for line in sql_text.splitlines() if line.strip()]
NonBlankLines(s) ==
    LET ls == SplitLines(s)
        stripped == [k \in 1..Len(ls) |-> Strip(ls[k])]
    IN  SelectSeq(stripped, LAMBDA l : l # <<>>)

HeaderWindow == 10

\* line.startswith("(") and "`" in line
IsHeaderLine(line) == StartsWith(line, <<"(">>) /\ Contains(line, <<BT>>)

HeaderCandidatesAnywhere(ls) == {k \in 1..Len(ls) : IsHeaderLine(ls[k])}

\* positions in lines[:10] of the lines that can name the columns
HeaderCandidates(ls) ==
    {k \in 1..Len(ls) : k <= HeaderWindow /\ IsHeaderLine(ls[k])}

\* the name in one part of the header line
HeaderName(part) ==
    LET q == Strip(part) IN
    IF StartsWith(q, <<BT>>) /\ EndsWith(q, <<BT>>)
    THEN StripChars(q, {BT})
    ELSE StripChars(q, {SQ, DQ})

\* col_line.strip("() ") split at the commas, one name per part
HeaderNames(col_line) ==
    LET parts == SplitOn(StripChars(col_line, {"(", ")", " "}), ",") IN
    [k \in 1..Len(parts) |-> HeaderName(parts[k])]

parse_from_values(s) ==
    LET ls == NonBlankLines(s)
        cands == HeaderCandidates(ls)
    IN  IF ls = <<>> THEN ValueError
        ELSE IF cands = {} THEN ValueError
        ELSE LET names == HeaderNames(ls[Min(cands)]) IN
             Returned(S_imported_data,
                      [k \in 1..Len(names) |-> <<names[k], S_VARCHAR255>>])

parse_create_table(s) ==
    LET m == create_match(s) IN
    IF m.found THEN Returned(m.name, BodyColumns(m.body))
    ELSE parse_from_values(s)

-----------------------------------------------------------------------------
(* build_create_table_sql and the corrected file *)

\* DROP TABLE IF EXISTS
S_DROP == <<"D", "R", "O", "P", " ", "T", "A", "B", "L", "E", " ", "I", "F", " ", "E", "X", "I", "S", "T", "S">>
\* CREATE TABLE
S_CREATE_TABLE == S_CREATE \o <<" ">> \o S_TABLE

\* f"    {name} {col_type},"
ColumnLine(col) == <<" ", " ", " ", " ">> \o col[1] \o <<" ">> \o col[2] \o <<",">>

\* sql_lines before the fixup of the last line
RenderLines(table, cols) ==
    <<S_DROP \o <<" ">> \o table \o <<";">>,
      <<>>,
      S_CREATE_TABLE \o <<" ">> \o table \o <<" ", "(">>,
      <<>>>>
    \o [k \in 1..Len(cols) |-> ColumnLine(cols[k])]

KeepLastComma(ls) == ls

\* if sql_lines[-1].endswith(","): sql_lines[-1] = sql_lines[-1][:-1]
FixLastComma(ls) ==
    IF EndsWith(ls[Len(ls)], <<",">>)
    THEN [ls EXCEPT ![Len(ls)] = Slice(ls[Len(ls)], 0, Len(ls[Len(ls)]) - 1)]
    ELSE ls

build_create_table_sql(table, cols) ==
    Join(FixLastComma(RenderLines(table, cols)) \o <<<<>>, <<")", ";">>, <<>>>>, <<NL>>)

\* the first comment line written to the corrected file (the two lines after it
\* name the source path and the time of the run)
FileHeader == <<"-", "-", " ", "A", "r", "c", "h", "i", "v", "o", " ", "S", "Q", "L", " ", "c", "o", "r", "r", "e", "g", "i", "d", "o", "/", "g", "e", "n", "e", "r", "a", "d", "o", " ", "p", "o", "r", " ", "C", "S", "V", " ", "t", "o", " ", "S", "Q", "L", " ", "C", "o", "n", "v", "e", "r", "t", "e", "r", " ", "C", "L", "I", "\n">>
\* the comment written before the INSERT statements
InsertsComment == <<"\n", "-", "-", " ", "I", "N", "S", "E", "R", "T", " ", "s", "t", "a", "t", "e", "m", "e", "n", "t", "s", " ", "(", "e", "x", "i", "s", "t", "e", "n", "t", "e", "s", " ", "y", " ", "e", "x", "t", "r", "a", "i", "d", "o", "s", " ", "d", "e", "s", "d", "e", " ", "V", "A", "L", "U", "E", "S", ")", "\n">>

\* the chunks written to the corrected file, in order
FileChunks(create_sql, statements) ==
    <<FileHeader, create_sql>>
    \o (IF Strip(statements) # <<>> THEN <<InsertsComment, statements>> ELSE <<>>)

-----------------------------------------------------------------------------
(* create_sqlite_from_sql and create_postgres_from_sql: the execution loops *)

\* batch_size of the PostgreSQL loop
BatchSize == 1000

\* the number of failures whose message is printed
ErrorLogLimit == 5

\* a connection the function returns without closing: nothing refers to it any more,
\* and whether it is closed by then is left to the garbage collector of the runtime
Unreferenced(n) == {n, n - 1}

\* statements tried so far: the loop is at the statement after them
Tried == executed + errors

\* the next statement is one the database rejects
NextFails == (Tried + 1) \in failing

\* if errors <= 5: console.print(...), with errors already counting this failure
Logged(n, shown) == IF n <= ErrorLogLimit THEN shown + 1 ELSE shown

-----------------------------------------------------------------------------
(* ask_processing_option and ask_sqlite_processing_option *)

\* choices=[...] of Prompt.ask: the prompt returns one of them and nothing else
AskChoices(a) ==
    IF a = "values" THEN {"1", "2", "3", "4"} ELSE {"1", "2", "3", "4", "5"}

\* the option "Personalizado"
CustomOption(a) == IF a = "values" THEN "4" ELSE "5"

\* the number returned for the other options
OptionValue(a, sel) ==
    IF a = "values"
    THEN (IF sel = "1" THEN 100 ELSE IF sel = "2" THEN 10000 ELSE 0)
    ELSE (IF sel = "1" THEN 100 ELSE IF sel = "2" THEN 500
          ELSE IF sel = "3" THEN 5000 ELSE 0)

\* the body of the first "while True": a numbered option returns its number; the
\* custom option takes "break", which leaves the loop that holds the custom prompt,
\* and the function ends without a return statement
AfterSelection(a, sel) ==
    IF sel = CustomOption(a) THEN <<>> ELSE <<OptionValue(a, sel)>>

\* the text of a file written chunk by chunk
RECURSIVE FileText(_)
FileText(chunks) ==
    IF chunks = <<>> THEN <<>> ELSE Head(chunks) \o FileText(Tail(chunks))

S_INSERT_INTO_SP == S_INSERT_INTO \o <<" ">>
S_SP_VALUES_OPEN == <<" ">> \o S_VALUES \o <<" ", "(">>

\* number of characters of s other than ")" from 0-based position k on: [^)]+
RECURSIVE NonCloseRun(_, _)
NonCloseRun(s, k) ==
    IF k < Len(s) /\ s[k + 1] # ")" THEN 1 + NonCloseRun(s, k + 1) ELSE 0

\* where r"INSERT INTO \w+ VALUES \([^)]+\);" (re.IGNORECASE) matches at 0-based
\* position p: the position after the match, or -1
InsertMatchEnd(s, p) ==
    IF ~WordAt(s, p, S_INSERT_INTO_SP) THEN -1
    ELSE LET a == p + Len(S_INSERT_INTO_SP)
             w == WordRun(s, a)
         IN  IF w = 0 \/ ~WordAt(s, a + w, S_SP_VALUES_OPEN) THEN -1
             ELSE LET b == a + w + Len(S_SP_VALUES_OPEN)
                      n == NonCloseRun(s, b)
                  IN  IF n >= 1 /\ b + n + 2 <= Len(s)
                         /\ s[b + n + 1] = ")" /\ s[b + n + 2] = ";"
                      THEN b + n + 2
                      ELSE -1

\* the matches among the candidate starts, left to right from position p on, none
\* overlapping another
RECURSIVE MatchesFrom(_, _, _)
MatchesFrom(s, starts, p) ==
    LET rest == {x \in starts : x >= p} IN
    IF rest = {} THEN <<>>
    ELSE LET q == Min(rest)
             e == InsertMatchEnd(s, q)
         IN  <<SubSeq(s, q + 1, e)>> \o MatchesFrom(s, starts, e)

\* re.findall(insert_pattern, sql_content, re.IGNORECASE)
FindInserts(s) ==
    LET starts == {p \in 0..(Len(s) - 1) :
                      s[p + 1] \in {"I", "i"} /\ InsertMatchEnd(s, p) >= 0}
    IN  MatchesFrom(s, starts, 0)

\* inserts[:max_inserts] if max_inserts > 0 and max_inserts < total_inserts
CapInserts(found, max) ==
    IF max > 0 /\ max < Len(found) THEN SubSeq(found, 1, max) ELSE found

-----------------------------------------------------------------------------
(* cli_interactive.detect_header *)

\* the byte order mark as a decoded character
BOM == "^bom"

S_AT == <<"@">>
S_HTTP == <<"h", "t", "t", "p", ":", "/", "/">>
S_HTTPS == <<"h", "t", "t", "p", "s", ":", "/", "/">>
S_DOT_COM == <<".", "c", "o", "m">>
S_DOT_NET == <<".", "n", "e", "t">>
S_DOT_ORG == <<".", "o", "r", "g">>
S_LINKEDIN_COM == <<"l", "i", "n", "k", "e", "d", "i", "n", ".", "c", "o", "m">>
S_IN_PATH == <<"/", "i", "n", "/">>
S_WWW == <<"w", "w", "w", ".">>

indicators_of_data ==
    {S_AT, S_HTTP, S_HTTPS, S_DOT_COM, S_DOT_NET, S_DOT_ORG, S_LINKEDIN_COM, S_IN_PATH,
     S_WWW}

\* f.readline() of a file opened in text mode: up to the first line break, which
\* universal newlines make of "\n", "\r" and "\r\n" alike
RECURSIVE ReadLine(_)
ReadLine(s) ==
    IF s = <<>> \/ s[1] \in {NL, CR} THEN <<>> ELSE <<s[1]>> \o ReadLine(Tail(s))

\* the body of the try block: None (<<>>) when an indicator is found, 0 otherwise
HeaderOfText(s) ==
    LET first_line == Strip(LStripChars(Strip(ReadLine(s)), {BOM}))
        first_line_lower == Lower(first_line)
        matches == Cardinality({ind \in indicators_of_data :
                                   Contains(first_line_lower, ind)})
    IN  IF matches > 0 THEN <<>> ELSE <<0>>

\* detect_header(csv_path): any exception gives 0
detect_header(s, can_read) == IF can_read THEN HeaderOfText(s) ELSE <<0>>

-----------------------------------------------------------------------------
(* cli_interactive.extract_name_from_linkedin_url *)

\* 0-based positions at which the text p occurs in s
Occurrences(s, p) ==
    {k \in 0..(Len(s) - Len(p)) : SubSeq(s, k + 1, k + Len(p)) = p}

\* s.split(p)[1] for a text p that occurs in s: what stands between the first
\* occurrence and the next one after it
SecondPart(s, p) ==
    LET a == Min(Occurrences(s, p)) + Len(p)
        later == {k \in Occurrences(s, p) : k >= a}
    IN  Slice(s, a, IF later = {} THEN Len(s) ELSE Min(later))

\* number of characters of [a-z0-9] of s from 0-based position k on
RECURSIVE IdRun(_, _)
IdRun(s, k) ==
    IF k < Len(s) /\ s[k + 1] \in (Digits \cup {LowerLetters[j] : j \in 1..26})
    THEN 1 + IdRun(s, k + 1)
    ELSE 0

\* 0-based positions where r'-[a-z0-9]+$' matches: "$" is the end of the text or
\* the place before a last "\n"
TailMatches(s) ==
    {k \in 0..(Len(s) - 1) :
        /\ s[k + 1] = "-"
        /\ IdRun(s, k + 1) >= 1
        /\ LET e == k + 1 + IdRun(s, k + 1) IN
           e = Len(s) \/ (e = Len(s) - 1 /\ s[Len(s)] = NL)}

\* re.sub(r'-[a-z0-9]+$', '', s)
DropTail(s) ==
    IF TailMatches(s) = {} THEN s
    ELSE LET k == Min(TailMatches(s)) IN
         Slice(s, 0, k) \o Slice(s, k + 1 + IdRun(s, k + 1), Len(s))

\* s.replace("-", " ")
DashesToSpaces(s) == [k \in 1..Len(s) |-> IF s[k] = "-" THEN " " ELSE s[k]]

extract_name_from_linkedin_url(u) ==
    IF u = None \/ u = <<>> THEN None
    ELSE LET stripped == Strip(u) IN
         IF ~Contains(stripped, S_IN_PATH) THEN None
         ELSE LET profile_slug == SplitOn(SecondPart(stripped, S_IN_PATH), "/")[1]
                  name == Join(SplitWords(DashesToSpaces(DropTail(profile_slug))),
                               <<" ">>)
              IN  IF name # <<>> THEN Strip(name) ELSE None

-----------------------------------------------------------------------------
(* cli_interactive.sanitize_name *)

\* characters outside ASCII, each written as one symbol
A_ACUTE_CAPITAL == "^A_acute"
A_ACUTE == "^a_acute"
AE_CAPITAL == "^AE"
AE == "^ae"
ESZETT == "^eszett"
COMBINING_ACUTE == "^combining_acute"
CYRILLIC_DE == "^cyrillic_de"

\* str.lower on one character of a name
NameLowerChar(c) ==
    IF c = A_ACUTE_CAPITAL THEN A_ACUTE
    ELSE IF c = AE_CAPITAL THEN AE
    ELSE LowerChar(c)

\* unicodedata.normalize("NFD", c) for one character: a letter with an accent is
\* its base letter followed by the combining mark
Decomposed(c) ==
    IF c = A_ACUTE THEN <<"a", COMBINING_ACUTE>>
    ELSE IF c = A_ACUTE_CAPITAL THEN <<"A", COMBINING_ACUTE>>
    ELSE <<c>>

\* unicodedata.category(char) == "Mn"
IsMark(c) == c = COMBINING_ACUTE

RECURSIVE Flatten(_)
Flatten(parts) == IF parts = <<>> THEN <<>> ELSE Head(parts) \o Flatten(Tail(parts))

\* the dict replacements, in its order
replacements ==
    <<<<ESZETT, <<"s", "s">>>>, <<AE, <<"a", "e">>>>, <<"^o_slash", <<"o">>>>,
      <<"^a_ring", <<"a">>>>, <<"^n_tilde", <<"n">>>>, <<"^c_cedilla", <<"c">>>>,
      <<"^oe", <<"o", "e">>>>,
      <<SQ, <<>>>>, <<BT, <<>>>>, <<"^acute", <<>>>>, <<"^", <<>>>>, <<"~", <<>>>>,
      <<DQ, <<>>>>,
      <<"^l_stroke", <<"l">>>>, <<"^d_stroke", <<"d">>>>, <<"^h_stroke", <<"h">>>>,
      <<"^t_stroke", <<"t">>>>,
      <<" ", <<"-">>>>, <<"_", <<"-">>>>, <<".", <<"-">>>>, <<"/", <<"-">>>>,
      <<BS, <<"-">>>>>>

\* s.replace(original, replacement) for a one-character original
ReplaceChar(s, original, replacement) ==
    Flatten([k \in 1..Len(s) |-> IF s[k] = original THEN replacement ELSE <<s[k]>>])

\* for original, replacement in replacements.items(): the loop from entry k on
RECURSIVE ApplyReplacements(_, _)
ApplyReplacements(s, k) ==
    IF k > Len(replacements) THEN s
    ELSE ApplyReplacements(ReplaceChar(s, replacements[k][1], replacements[k][2]), k + 1)

\* the characters that [^a-z0-9\-] leaves
NameChars == {LowerLetters[k] : k \in 1..26} \cup Digits \cup {"-"}

KeepHyphens(s) == s

\* re.sub(r"-+", "-", s)
RECURSIVE CollapseHyphens(_)
CollapseHyphens(s) ==
    IF Len(s) < 2 THEN s
    ELSE IF s[1] = "-" /\ s[2] = "-" THEN CollapseHyphens(Tail(s))
    ELSE <<s[1]>> \o CollapseHyphens(Tail(s))

sanitize_name(n) ==
    IF n = None THEN None
    ELSE LET stripped == Strip(n) IN
         IF stripped = <<>> THEN None
         ELSE LET lowered == [k \in 1..Len(stripped) |-> NameLowerChar(stripped[k])]
                  normalized == Flatten([k \in 1..Len(lowered) |-> Decomposed(lowered[k])])
                  ascii_name == SelectSeq(normalized, LAMBDA c : ~IsMark(c))
                  replaced == ApplyReplacements(ascii_name, 1)
                  filtered == SelectSeq(replaced, LAMBDA c : c \in NameChars)
                  result == StripChars(CollapseHyphens(filtered), {"-"})
              IN  IF result = <<>> THEN None ELSE result

-----------------------------------------------------------------------------
(* Bounds and input sets *)

MaxSanLen == 4
MaxTokLen == 4
MaxFields == 3
MaxIdx == 3
MaxLines == 3
MaxCap == 2
MaxCols == 3

SeqsUpTo(S, n) == UNION {[1..m -> S] : m \in 0..n}

S_VARCHAR10 == <<"V", "A", "R", "C", "H", "A", "R", "(", "1", "0", ")">>
S_int == <<"i", "n", "t">>

SanChars == {SQ, DQ, " ", NL, "1", ".", "-", "a"}
SanExtra ==
    {None, S_NULL, <<"n", "u", "l", "l">>, <<SQ, "N", "U", "L", "L", SQ>>,
     <<"O", SQ, "C", "o", "n", "n", "o", "r">>, <<"a", CTRL, TAB, XCTRL, "b", NEL>>,
     <<"+", "4", "2">>, <<SQ, "4", "2", SQ>>, <<DQ, "4", ".", "5", NL, DQ>>}
SanInputs == SeqsUpTo(SanChars, MaxSanLen) \cup SanExtra
S_Decimal_10_2 == <<"D", "e", "c", "i", "m", "a", "l", "(", "1", "0", ",", "2", ")">>
S_float == <<"f", "l", "o", "a", "t">>
S_Real == <<"R", "e", "a", "l">>
SanTypes == {None, <<>>, S_INT, S_int, S_VARCHAR10, S_Decimal_10_2, S_float, S_Real,
             S_NUMERIC}

TokChars == {",", SQ, DQ, BS, "(", ")", "{", "}", " ", "a"}
TokInputs == SeqsUpTo(TokChars, MaxTokLen)

\* tuples of up to MaxFields fields for the projection
ProjFields == {<<"1">>, <<SQ, "a", ",", "b", SQ>>, <<" ", "x">>}
ProjBlocks == {Join(fs, <<",">>) : fs \in SeqsUpTo(ProjFields, MaxFields)}
ProjKept ==
    {<<>>} \cup {<<a>> : a \in 0..MaxIdx}
           \cup {<<a, b>> : a \in 0..MaxIdx, b \in 0..MaxIdx}
ProjTypes == {NoneTypes, <<S_INT>>, <<S_TEXT, S_INT>>}

S_t == <<"t">>
S_id == <<"i","d">>
S_name == <<"n","a","m","e">>
S_sector == <<"s","e","c","t","o","r">>
S_extra == <<"e","x","t","r","a">>
S_leads == <<"l","e","a","d","s">>
S_renamed == <<"r","e","n","a","m","e","d">>

\* INSERT INTO o VALUES (7, 'x');
L_INSERT ==
    <<"I", "N", "S", "E", "R", "T", " ", "I", "N", "T", "O", " ", "o", " ", "V", "A", "L", "U", "E", "S", " ", "(", "7", ",", " ", "'", "x", "'", ")", ";">>
\*   insert into o values (8, 'y'), (9, 'z')
L_insert_rows ==
    <<" ", " ", "i", "n", "s", "e", "r", "t", " ", "i", "n", "t", "o", " ", "o", " ", "v", "a", "l", "u", "e", "s", " ", "(", "8", ",", " ", "'", "y", "'", ")", ",", " ", "(", "9", ",", " ", "'", "z", "'", ")">>
\* INSERT INTO o DEFAULT VALUES;
L_INSERT_DEFAULT ==
    <<"I", "N", "S", "E", "R", "T", " ", "I", "N", "T", "O", " ", "o", " ", "D", "E", "F", "A", "U", "L", "T", " ", "V", "A", "L", "U", "E", "S", ";">>
\* (1, 'ACME Inc', 'tech'),
L_TUPLE_ACME ==
    <<"(", "1", ",", " ", "'", "A", "C", "M", "E", " ", "I", "n", "c", "'", ",", " ", "'", "t", "e", "c", "h", "'", ")", ",">>
\* (2, 'Globex', 'finance')
L_TUPLE_GLOBEX ==
    <<"(", "2", ",", " ", "'", "G", "l", "o", "b", "e", "x", "'", ",", " ", "'", "f", "i", "n", "a", "n", "c", "e", "'", ")">>
\* (3, 4)
L_TUPLE_SHORT ==
    <<"(", "3", ",", " ", "4", ")">>
\* ('k', 'not numeric')
L_TUPLE_TEXT_FIRST ==
    <<"(", "'", "k", "'", ",", " ", "'", "n", "o", "t", " ", "n", "u", "m", "e", "r", "i", "c", "'", ")">>

\* (10, 2.5, 30)
L_TUPLE_NUMBERS ==
    <<"(", "1", "0", ",", " ", "2", ".", "5", ",", " ", "3", "0", ")">>

LinePool == {L_INSERT, L_insert_rows, L_INSERT_DEFAULT, L_TUPLE_ACME, L_TUPLE_NUMBERS,
             L_TUPLE_SHORT, L_TUPLE_TEXT_FIRST}
RecTexts == {Join(ls, <<NL>>) : ls \in SeqsUpTo(LinePool, MaxLines)}
\* column_names, kept_indices, column_types as a caller passes them together
RecSchemas ==
    {[names |-> <<S_id, S_name, S_sector>>, kept |-> NoneList, types |-> NoneTypes],
     [names |-> <<S_id, S_sector>>, kept |-> <<0, 2>>, types |-> <<S_INT, S_TEXT>>],
     [names |-> <<S_id, S_sector>>, kept |-> <<0, 2>>, types |-> <<S_TEXT>>],
     [names |-> <<>>, kept |-> <<>>, types |-> <<>>]}

AllColumns == <<<<S_id, S_INT>>, <<S_name, S_TEXT>>, <<S_sector, S_TEXT>>,
                <<S_extra, S_VARCHAR10>>>>
RunColumns == {SubSeq(AllColumns, 1, n) : n \in 1..(IF MaxCols < 4 THEN MaxCols ELSE 4)}
RunTexts ==
    {Join(<<L_TUPLE_ACME, L_TUPLE_GLOBEX>>, <<NL>>),
     Join(<<L_INSERT, L_TUPLE_ACME>>, <<NL>>),
     L_INSERT_DEFAULT}
\* the orders in which the user can tick choices 1..n
Selections(n) == {s \in SeqsUpTo(1..n, n) : \A a, b \in 1..Len(s) : a # b => s[a] # s[b]}

MaxBodyLines == 3

\*     id INT,
B_id ==
    <<" ", " ", " ", " ", "i", "d", " ", "I", "N", "T", ",">>
\*     name VARCHAR(255),
B_name ==
    <<" ", " ", " ", " ", "n", "a", "m", "e", " ", "V", "A", "R", "C", "H", "A", "R", "(", "2", "5", "5", ")", ",">>
\*     price DECIMAL(10,2),
B_price ==
    <<" ", " ", " ", " ", "p", "r", "i", "c", "e", " ", "D", "E", "C", "I", "M", "A", "L", "(", "1", "0", ",", "2", ")", ",">>
\*     -- source columns
B_comment ==
    <<" ", " ", " ", " ", "-", "-", " ", "s", "o", "u", "r", "c", "e", " ", "c", "o", "l", "u", "m", "n", "s">>
\*     flag
B_flag ==
    <<" ", " ", " ", " ", "f", "l", "a", "g">>
\* CREATE TABLE t (\n
H_CREATE ==
    <<"C", "R", "E", "A", "T", "E", " ", "T", "A", "B", "L", "E", " ", "t", " ", "(", "\n">>
\* create table if not exists leads(\n
H_create_if ==
    <<"c", "r", "e", "a", "t", "e", " ", "t", "a", "b", "l", "e", " ", "i", "f", " ", "n", "o", "t", " ", "e", "x", "i", "s", "t", "s", " ", "l", "e", "a", "d", "s", "(", "\n">>
\* \n);\n
T_CLOSE ==
    <<"\n", ")", ";", "\n">>

BodyLinePool == {B_id, B_name, B_price, B_comment, B_flag, <<>>}
\* texts with one CREATE TABLE block of up to MaxBodyLines body lines
CreateTexts ==
    {h \o Join(ls, <<NL>>) \o T_CLOSE :
        h \in {H_CREATE, H_create_if}, ls \in SeqsUpTo(BodyLinePool, MaxBodyLines)}

\* (`id`, `name`, `sector`)
L_HEADER ==
    <<"(", "^bt", "i", "d", "^bt", ",", " ", "^bt", "n", "a", "m", "e", "^bt", ",", " ", "^bt", "s", "e", "c", "t", "o", "r", "^bt", ")">>
\* ( `id`, 'name', sector )
L_HEADER_MIXED ==
    <<"(", " ", "^bt", "i", "d", "^bt", ",", " ", "'", "n", "a", "m", "e", "'", ",", " ", "s", "e", "c", "t", "o", "r", " ", ")">>
\* (`
L_BACKTICK_ONLY ==
    <<"(", "^bt">>
\* -- exported rows
L_JUNK ==
    <<"-", "-", " ", "e", "x", "p", "o", "r", "t", "e", "d", " ", "r", "o", "w", "s">>

\* n lines of L_JUNK, each ended by a line break
RECURSIVE JunkLines(_)
JunkLines(n) == IF n = 0 THEN <<>> ELSE L_JUNK \o <<NL>> \o JunkLines(n - 1)

\* texts without a CREATE TABLE block
HeaderTexts ==
    {<<>>, <<" ", NL, TAB, NL>>,
     L_TUPLE_ACME \o <<NL>> \o L_TUPLE_GLOBEX,
     L_BACKTICK_ONLY,
     L_HEADER_MIXED \o <<NL>> \o L_TUPLE_ACME}
    \cup {JunkLines(n) \o L_HEADER \o <<NL>> \o L_TUPLE_ACME \o <<NL>> \o L_TUPLE_GLOBEX :
             n \in {0, 1, HeaderWindow - 1, HeaderWindow, HeaderWindow + 1}}

ParseTexts == CreateTexts \cup HeaderTexts

\* the texts of the repair runs that start at the parse
FlowTexts ==
    HeaderTexts
    \cup {H_CREATE \o B_id \o <<NL>> \o B_flag \o T_CLOSE \o L_TUPLE_ACME,
          H_create_if \o B_id \o <<NL>> \o B_name \o <<NL>> \o B_flag \o T_CLOSE}

RenderTables == {S_t, S_leads}
RenderColumnPool ==
    {<<S_id, S_INT>>, <<S_name, S_VARCHAR255>>,
     <<S_sector, <<"D","E","C","I","M","A","L","(","1","0",",","2",")">>>>}
RenderColumns == SeqsUpTo(RenderColumnPool, MaxCols)

MaxExtra == 2

\* numbers of statements: a few, one batch and a little more, two batches and one
SinkTotals ==
    (0..MaxExtra) \cup {BatchSize + d : d \in 0..MaxExtra} \cup {2 * BatchSize + 1}

\* which statements the database rejects
FailPatterns ==
    {{}} \cup {{k} : k \in 1..(MaxExtra + 1)}
         \cup {1..(ErrorLogLimit + MaxExtra)}
         \cup {{BatchSize + 1}}

MaxAskSpan == 15

\* numbers of detected values around the limit of a small file
AskTotals == (SmallFile - MaxAskSpan)..(SmallFile + MaxAskSpan)

MaxPad == 1

PadChars == {"a", ",", " "}
HeaderPads == SeqsUpTo(PadChars, MaxPad) \cup {<<BOM>>, <<" ", BOM, " ">>}

\* an indicator as it is, in capitals, and cut short of its last character
HeaderWords ==
    indicators_of_data \cup {Upper(w) : w \in indicators_of_data}
        \cup {SubSeq(w, 1, Len(w) - 1) : w \in indicators_of_data}

\* what follows the first line: nothing, or a line break and a data row
HeaderRests == {<<>>, <<NL>> \o <<"a">> \o S_AT \o <<"b">>, <<CR>> \o S_WWW}

HeaderCsvTexts ==
    {a \o w \o b \o r : a \in HeaderPads, w \in HeaderWords, b \in HeaderPads,
                        r \in HeaderRests}

MaxSegments == 3

S_jose == <<"j", "o", "s", "e">>
S_garcia == <<"g", "a", "r", "c", "i", "a">>
S_Doe == <<"D", "o", "e">>
S_12345 == <<"1", "2", "3", "4", "5">>
S_88764a50 == <<"8", "8", "7", "6", "4", "a", "5", "0">>
S_linkedin_host == S_LINKEDIN_COM

SlugWords == {S_jose, S_garcia, S_Doe, S_12345, S_88764a50}
Slugs == {Join(ws, <<"-">>) : ws \in SeqsUpTo(SlugWords, MaxSegments)}
UrlTails == {<<>>, <<"/">>, <<NL, "/", "x">>, S_IN_PATH \o S_jose}
LinkedinUrls ==
    {None, <<>>, S_linkedin_host, S_linkedin_host \o <<"/", "i", "n">>}
        \cup {h \o S_IN_PATH \o s \o e :
                 h \in {<<>>, <<" ">> \o S_linkedin_host}, s \in Slugs, e \in UrlTails}

MaxNameLen == 4

NameAlphabet ==
    {"a", "B", "1", " ", "-", "_", SQ, "!", A_ACUTE, ESZETT, COMBINING_ACUTE}
NameExtra ==
    {None, <<"O", SQ, "C", "o", "n", "n", "o", "r">>,
     <<"J", "o", "s", A_ACUTE, " ", "d", "a", " ", "S", "i", "l", "v", "a">>,
     <<A_ACUTE_CAPITAL, "n", "a">>, <<AE_CAPITAL, ".", "/", BS, "x">>,
     <<"!", "@", "#", "$", "%">>, <<"-", "-", "-">>, <<CYRILLIC_DE, "2", "~", DQ>>}
NameInputs == SeqsUpTo(NameAlphabet, MaxNameLen) \cup NameExtra

-----------------------------------------------------------------------------
(* The operations as steps *)

SanIdle == value = None /\ column_type = None /\ sanitized = None

TokIdle ==
    /\ value_block = <<>> /\ kept_indices = NoneList /\ column_types = NoneTypes
    /\ i = 0 /\ values = <<>> /\ current_value = <<>> /\ in_quotes = FALSE
    /\ quote_char = NoQuote /\ brace_depth = 0 /\ paren_depth = 0
    /\ filtered_values = <<>> /\ tuple_text = None

RecIdle ==
    /\ sql_text = <<>> /\ table_name = <<>> /\ column_names = <<>> /\ max_values = 0
    /\ lines = <<>> /\ line_num = 0 /\ existing_inserts = <<>> /\ values_only = <<>>
    /\ insert_statements = <<>> /\ insert_sql = None

RunIdle ==
    /\ entry = "none" /\ columns = <<>> /\ selected_to_remove = <<>>
    /\ indices_to_remove = {} /\ filtered_columns = <<>> /\ edited_columns = <<>>
    /\ new_table_name = None

FileIdle == parsed = NotParsed /\ corrected_sql = None /\ out_file = <<>>

AskIdle == asker = "none" /\ total_values = 0 /\ selection = "" /\ ask_result = <<>>

LoadIdle == max_inserts = 0 /\ inserts = <<>>

HeadIdle == csv_text = <<>> /\ readable = FALSE /\ header = None

LinkIdle == url = <<>> /\ linkedin_name = None

NameIdle == person_name = <<>> /\ sanitized_name = None

CsvIdle ==
    /\ converter = "none" /\ csv_rows = <<>> /\ chunk_size = 0 /\ max_rows = 0
    /\ read_error = 0 /\ chunks_read = 0 /\ row_pos = 0 /\ processed_rows = 0 /\ error_count = 0
    /\ total_chunks = 0 /\ skipped_lines = <<>> /\ sql_file = <<>>
    /\ success_rate = <<>> /\ csv_result = "none"

AuxIdle == AskIdle /\ LoadIdle /\ HeadIdle /\ LinkIdle /\ NameIdle /\ CsvIdle

SinkIdle ==
    /\ sink = "none" /\ total_statements = 0 /\ failing = {} /\ executed = 0
    /\ errors = 0 /\ logged = 0 /\ pending = 0 /\ committed = 0
    /\ sink_result = "none" /\ has_create = FALSE /\ conn_open = 0

\* a call of sanitize_sql_value_with_type(value, column_type)
Sanitize ==
    /\ pc = "san_call"
    /\ sanitized' = sanitize_sql_value_with_type(value, column_type)
    /\ pc' = "san_done"
    /\ UNCHANGED <<value, column_type, tokVars, recVars, runVars,
                   fileVars, sinkVars, auxVars>>

\* extract_filtered_values up to the start of the scan
TokBegin ==
    /\ pc = "tok_call"
    /\ value_block' = Unwrap(value_block)
    /\ values' = ScanInit.values
    /\ current_value' = ScanInit.current_value
    /\ in_quotes' = ScanInit.in_quotes
    /\ quote_char' = ScanInit.quote_char
    /\ brace_depth' = ScanInit.brace_depth
    /\ paren_depth' = ScanInit.paren_depth
    /\ i' = 0
    /\ pc' = "tok_scan"
    /\ UNCHANGED <<kept_indices, column_types, filtered_values, tuple_text, sanVars, recVars, runVars,
                   fileVars, sinkVars, auxVars>>

\* one iteration of while i < len(value_block)
TokScan ==
    /\ pc = "tok_scan"
    /\ i < Len(value_block)
    /\ LET st == ScanChar([values |-> values, current_value |-> current_value,
                           in_quotes |-> in_quotes, quote_char |-> quote_char,
                           brace_depth |-> brace_depth, paren_depth |-> paren_depth],
                          value_block, i)
       IN  /\ values' = st.values
           /\ current_value' = st.current_value
           /\ in_quotes' = st.in_quotes
           /\ quote_char' = st.quote_char
           /\ brace_depth' = st.brace_depth
           /\ paren_depth' = st.paren_depth
    /\ i' = i + 1
    /\ UNCHANGED <<pc, value_block, kept_indices, column_types, filtered_values,
                   tuple_text, sanVars, recVars, runVars,
                   fileVars, sinkVars, auxVars>>

\* the loop's exit and the append of the last value
TokLast ==
    /\ pc = "tok_scan"
    /\ i >= Len(value_block)
    /\ values' = AppendLast(values, current_value)
    /\ filtered_values' = <<>>
    /\ i' = 0
    /\ pc' = "tok_project"
    /\ UNCHANGED <<value_block, kept_indices, column_types, current_value, in_quotes,
                   quote_char, brace_depth, paren_depth, tuple_text, sanVars, recVars, runVars,
                   fileVars, sinkVars, auxVars>>

\* one iteration of for i, idx in enumerate(kept_indices)
TokProject ==
    /\ pc = "tok_project"
    /\ i < Len(kept_indices)
    /\ filtered_values' =
           Append(filtered_values,
                  ProjectedEntry(values, kept_indices[i + 1], TypeAt(column_types, i)))
    /\ i' = i + 1
    /\ UNCHANGED <<pc, value_block, kept_indices, column_types, values, current_value,
                   in_quotes, quote_char, brace_depth, paren_depth, tuple_text, sanVars, recVars, runVars,
                   fileVars, sinkVars, auxVars>>

\* return f"({', '.join(filtered_values)})"
TokReturn ==
    /\ pc = "tok_project"
    /\ i >= Len(kept_indices)
    /\ tuple_text' = TupleText(filtered_values)
    /\ pc' = "tok_done"
    /\ UNCHANGED <<value_block, kept_indices, column_types, i, values, current_value,
                   in_quotes, quote_char, brace_depth, paren_depth, filtered_values,
                   sanVars, recVars, runVars,
                   fileVars, sinkVars, auxVars>>

InitSan ==
    /\ pc = "san_call"
    /\ value \in SanInputs
    /\ column_type \in SanTypes
    /\ sanitized = None
    /\ TokIdle /\ RecIdle /\ RunIdle /\ FileIdle /\ SinkIdle /\ AuxIdle

TokLocalsInit ==
    /\ i = 0 /\ values = <<>> /\ current_value = <<>> /\ in_quotes = FALSE
    /\ quote_char = NoQuote /\ brace_depth = 0 /\ paren_depth = 0
    /\ filtered_values = <<>> /\ tuple_text = None

InitTok ==
    /\ pc = "tok_call"
    /\ value_block \in TokInputs
    /\ kept_indices = <<0>>
    /\ column_types = NoneTypes
    /\ TokLocalsInit
    /\ SanIdle /\ RecIdle /\ RunIdle /\ FileIdle /\ SinkIdle /\ AuxIdle

InitProj ==
    /\ pc = "tok_call"
    /\ value_block \in ProjBlocks
    /\ kept_indices \in ProjKept
    /\ column_types \in ProjTypes
    /\ TokLocalsInit
    /\ SanIdle /\ RecIdle /\ RunIdle /\ FileIdle /\ SinkIdle /\ AuxIdle

\* extract_insert_statements up to the start of the scan over the lines
RecBegin ==
    /\ pc = "rec_call"
    /\ lines' = SplitLines(sql_text)
    /\ line_num' = 0
    /\ existing_inserts' = <<>>
    /\ values_only' = <<>>
    /\ insert_statements' = <<>>
    /\ pc' = "rec_scan"
    /\ UNCHANGED <<sql_text, table_name, column_names, max_values, insert_sql,
                   sanVars, tokVars, runVars,
                   fileVars, sinkVars, auxVars>>

\* one iteration of for line_num, line in enumerate(lines, 1)
RecScanLine ==
    /\ pc = "rec_scan"
    /\ line_num < Len(lines)
    /\ LET c == ClassifyLine(lines[line_num + 1], table_name, column_names)
           e == [text |-> c.text, line |-> line_num + 1]
       IN  /\ existing_inserts' =
                  IF c.kind = "insert" THEN Append(existing_inserts, e) ELSE existing_inserts
           /\ values_only' =
                  IF c.kind = "values" THEN Append(values_only, e) ELSE values_only
    /\ line_num' = line_num + 1
    /\ UNCHANGED <<pc, sql_text, table_name, column_names, max_values, lines,
                   insert_statements, insert_sql, sanVars, tokVars, runVars,
                   fileVars, sinkVars, auxVars>>

\* insert_statements.extend(existing_inserts), the limit asked when max_values is 0
\* (no prompt for at most 100 values), and the cut of values_only
RecLimit ==
    /\ pc = "rec_scan"
    /\ line_num >= Len(lines)
    /\ Len(values_only) <= SmallFile
    /\ insert_statements' = [k \in 1..Len(existing_inserts) |-> FromExisting(existing_inserts[k])]
    /\ max_values' = ResolvedLimit(max_values, values_only)
    /\ values_only' = Limited(values_only, max_values')
    /\ i' = 0
    /\ pc' = "rec_convert"
    /\ UNCHANGED <<sql_text, table_name, column_names, lines, line_num, existing_inserts,
                   insert_sql, sanVars, runVars, value_block, kept_indices, column_types,
                   values, current_value, in_quotes, quote_char, brace_depth,
                   paren_depth, filtered_values, tuple_text,
                   fileVars, sinkVars, auxVars>>

\* one iteration of for i, value_block in enumerate(values_only)
RecConvert ==
    /\ pc = "rec_convert"
    /\ i < Len(values_only)
    /\ insert_statements' =
           AddStatement(insert_statements,
                        FromTuple(values_only[i + 1], table_name, column_names,
                                  kept_indices, column_types))
    /\ i' = i + 1
    /\ UNCHANGED <<pc, sql_text, table_name, column_names, max_values, lines, line_num,
                   existing_inserts, values_only, insert_sql, sanVars, runVars,
                   value_block, kept_indices, column_types, values, current_value,
                   in_quotes, quote_char, brace_depth, paren_depth, filtered_values,
                   tuple_text,
                   fileVars, sinkVars, auxVars>>

\* return "\n".join(insert_statements)
RecReturn ==
    /\ pc = "rec_convert"
    /\ i >= Len(values_only)
    /\ insert_sql' = Join(Texts(insert_statements), <<NL>>)
    /\ pc' = "rec_done"
    /\ UNCHANGED <<sql_text, table_name, column_names, max_values, lines, line_num,
                   existing_inserts, values_only, insert_statements, sanVars, tokVars,
                   runVars,
                   fileVars, sinkVars, auxVars>>

\* interactive_edit, step 1: the user ticks the columns to remove
RunSelect ==
    /\ pc = "run_edit"
    /\ \E sel \in Selections(Len(columns)) :
          /\ selected_to_remove' = sel
          /\ indices_to_remove' = RemovedIndices(sel)
          /\ filtered_columns' = FilterColumns(columns, RemovedIndices(sel))
    /\ edited_columns' = <<>>
    /\ pc' = "run_rename"
    /\ UNCHANGED <<entry, columns, new_table_name, sanVars, tokVars, recVars,
                   fileVars, sinkVars, auxVars>>

\* interactive_edit, step 2: one iteration of for name, col_type in filtered_columns;
\* each prompt defaults to the current value
RunRename ==
    /\ pc = "run_rename"
    /\ Len(edited_columns) < Len(filtered_columns)
    /\ LET col == filtered_columns[Len(edited_columns) + 1] IN
       \E new_name \in {col[1], S_renamed}, new_type \in {col[2], S_INT} :
          edited_columns' = Append(edited_columns, <<new_name, new_type>>)
    /\ UNCHANGED <<pc, entry, columns, selected_to_remove, indices_to_remove,
                   filtered_columns, new_table_name, sanVars, tokVars, recVars,
                   fileVars, sinkVars, auxVars>>

\* interactive_edit, step 3: the table name, and the return
RunTable ==
    /\ pc = "run_rename"
    /\ Len(edited_columns) >= Len(filtered_columns)
    /\ new_table_name' \in {table_name, S_leads}
    /\ pc' = "run_write"
    /\ UNCHANGED <<entry, columns, selected_to_remove, indices_to_remove,
                   filtered_columns, edited_columns, sanVars, tokVars, recVars,
                   fileVars, sinkVars, auxVars>>

\* the caller writes the corrected file: the header, the CREATE TABLE text and
\* the result of extract_insert_statements:
\*   main passes kept_indices built from indices_to_remove;
\*   sql_repair_mode drops the removed set and passes None
RunReconstruct ==
    /\ pc = "run_write"
    /\ column_names' = [k \in 1..Len(edited_columns) |-> edited_columns[k][1]]
    /\ column_types' = [k \in 1..Len(edited_columns) |-> edited_columns[k][2]]
    /\ kept_indices' = IF entry = "main"
                       THEN KeptIndices(Len(columns), indices_to_remove)
                       ELSE NoneList
    /\ insert_statements' =
           StatementsOf(sql_text, new_table_name, column_names', 0, kept_indices',
                        column_types')
    /\ insert_sql' = Join(Texts(insert_statements'), <<NL>>)
    /\ corrected_sql' = build_create_table_sql(new_table_name, edited_columns)
    /\ out_file' = FileChunks(corrected_sql', insert_sql')
    /\ pc' = "run_done"
    /\ UNCHANGED <<sql_text, table_name, max_values, lines, line_num, existing_inserts,
                   values_only, sanVars, runVars, value_block, i, values, current_value,
                   in_quotes, quote_char, brace_depth, paren_depth, filtered_values,
                   tuple_text, parsed, sinkVars, auxVars>>

InitRec ==
    /\ pc = "rec_call"
    /\ sql_text \in RecTexts
    /\ table_name = S_t
    /\ \E sch \in RecSchemas :
          /\ column_names = sch.names
          /\ kept_indices = sch.kept
          /\ column_types = sch.types
    /\ max_values \in 0..MaxCap
    /\ lines = <<>> /\ line_num = 0 /\ existing_inserts = <<>> /\ values_only = <<>>
    /\ insert_statements = <<>> /\ insert_sql = None
    /\ value_block = <<>> /\ TokLocalsInit
    /\ SanIdle /\ RunIdle /\ FileIdle /\ SinkIdle /\ AuxIdle

\* the state after parse_create_table returned table_name and columns
InitRun ==
    /\ pc = "run_edit"
    /\ entry \in {"main", "cli"}
    /\ columns \in RunColumns
    /\ table_name = S_imported_data
    /\ sql_text \in RunTexts
    /\ selected_to_remove = <<>> /\ indices_to_remove = {} /\ filtered_columns = <<>>
    /\ edited_columns = <<>> /\ new_table_name = None
    /\ column_names = <<>> /\ max_values = 0
    /\ lines = <<>> /\ line_num = 0 /\ existing_inserts = <<>> /\ values_only = <<>>
    /\ insert_statements = <<>> /\ insert_sql = None
    /\ value_block = <<>> /\ kept_indices = NoneList /\ column_types = NoneTypes
    /\ TokLocalsInit
    /\ SanIdle /\ FileIdle /\ SinkIdle /\ AuxIdle

\* a call of parse_create_table(sql_text)
Parse ==
    /\ pc = "parse_call"
    /\ parsed' = parse_create_table(sql_text)
    /\ pc' = "parse_done"
    /\ UNCHANGED <<sanVars, tokVars, recVars, runVars, corrected_sql, out_file, sinkVars, auxVars>>

\* a call of build_create_table_sql(new_table_name, edited_columns)
Render ==
    /\ pc = "render_call"
    /\ corrected_sql' = build_create_table_sql(new_table_name, edited_columns)
    /\ pc' = "render_done"
    /\ UNCHANGED <<sanVars, tokVars, recVars, runVars, parsed, out_file, sinkVars, auxVars>>

\* the run's first step when parse_create_table returns: table_name, columns
RunParsed ==
    /\ pc = "run_parse"
    /\ ~parse_create_table(sql_text).raised
    /\ parsed' = parse_create_table(sql_text)
    /\ table_name' = parsed'.table_name
    /\ columns' = parsed'.columns
    /\ pc' = "run_edit"
    /\ UNCHANGED <<sql_text, column_names, max_values, lines, line_num, existing_inserts,
                   values_only, insert_statements, insert_sql, entry, selected_to_remove,
                   indices_to_remove, filtered_columns, edited_columns, new_table_name,
                   sanVars, tokVars, corrected_sql, out_file, sinkVars, auxVars>>

\* the run's first step when parse_create_table raises ValueError: main prints it
\* and calls sys.exit(1), sql_repair_mode prints it and returns False
RunAbort ==
    /\ pc = "run_parse"
    /\ parse_create_table(sql_text).raised
    /\ parsed' = parse_create_table(sql_text)
    /\ pc' = "run_exit"
    /\ UNCHANGED <<sanVars, tokVars, recVars, runVars, corrected_sql, out_file, sinkVars, auxVars>>

InitParse ==
    /\ pc = "parse_call"
    /\ sql_text \in ParseTexts
    /\ table_name = <<>> /\ column_names = <<>> /\ max_values = 0
    /\ lines = <<>> /\ line_num = 0 /\ existing_inserts = <<>> /\ values_only = <<>>
    /\ insert_statements = <<>> /\ insert_sql = None
    /\ SanIdle /\ TokIdle /\ RunIdle /\ FileIdle /\ SinkIdle /\ AuxIdle

InitRender ==
    /\ pc = "render_call"
    /\ new_table_name \in RenderTables
    /\ edited_columns \in RenderColumns
    /\ entry = "none" /\ columns = <<>> /\ selected_to_remove = <<>>
    /\ indices_to_remove = {} /\ filtered_columns = <<>>
    /\ SanIdle /\ TokIdle /\ RecIdle /\ FileIdle /\ SinkIdle /\ AuxIdle

\* a repair run from its start: the text was read, nothing is parsed yet
InitFlow ==
    /\ pc = "run_parse"
    /\ entry \in {"main", "cli"}
    /\ sql_text \in FlowTexts
    /\ table_name = <<>> /\ columns = <<>>
    /\ selected_to_remove = <<>> /\ indices_to_remove = {} /\ filtered_columns = <<>>
    /\ edited_columns = <<>> /\ new_table_name = None
    /\ column_names = <<>> /\ max_values = 0
    /\ lines = <<>> /\ line_num = 0 /\ existing_inserts = <<>> /\ values_only = <<>>
    /\ insert_statements = <<>> /\ insert_sql = None
    /\ value_block = <<>> /\ kept_indices = NoneList /\ column_types = NoneTypes
    /\ TokLocalsInit
    /\ SanIdle /\ FileIdle /\ SinkIdle /\ AuxIdle

\* sql_repair_fixed.main, PostgreSQL chosen: create_postgres_from_sql reads the
\* corrected file and finds its INSERT statements
RunPgFind ==
    /\ pc = "run_done" /\ entry = "main"
    /\ LET sql_content == FileText(out_file)
           found == FindInserts(sql_content)
       IN  \E m \in 0..MaxCap :
              /\ max_inserts' = m
              /\ inserts' = CapInserts(found, m)
    /\ pc' = "pg_found"
    /\ UNCHANGED <<sanVars, tokVars, recVars, runVars, fileVars, sinkVars, askVars,
                   headVars, linkVars, nameVars, csvVars>>

\* both sinks: conn = connect(...), cursor = conn.cursor(), the file is read
SinkConnect ==
    /\ pc = "sink_call"
    /\ conn_open' = conn_open + 1
    /\ pc' = "sink_opened"
    /\ UNCHANGED <<sink, total_statements, failing, executed, errors, logged, pending,
                   committed, sink_result, has_create, sanVars, tokVars, recVars,
                   runVars, fileVars, auxVars>>

\* create_postgres_from_sql: if not create_match: return False, with no conn.close()
PgNoCreate ==
    /\ pc = "sink_opened" /\ sink = "postgres"
    /\ ~has_create
    /\ conn_open' \in Unreferenced(conn_open)
    /\ sink_result' = "failed"
    /\ pc' = "sink_done"
    /\ UNCHANGED <<sink, total_statements, failing, executed, errors, logged, pending,
                   committed, has_create, sanVars, tokVars, recVars, runVars, fileVars,
                   auxVars>>

\* both sinks: the statements of the file are found and the loop over them starts
SinkBegin ==
    /\ pc = "sink_opened"
    /\ sink = "postgres" => has_create
    /\ pc' = "sink_run"
    /\ UNCHANGED <<sinkVars, sanVars, tokVars, recVars, runVars, fileVars, auxVars>>

\* create_sqlite_from_sql: cursor.execute(statement) succeeds
SqliteExecute ==
    /\ pc = "sink_run" /\ sink = "sqlite"
    /\ Tried < total_statements
    /\ ~NextFails
    /\ executed' = executed + 1
    /\ pending' = pending + 1
    /\ UNCHANGED <<has_create, conn_open, pc, sink, total_statements, failing, errors, logged, committed,
                   sink_result, sanVars, tokVars, recVars, runVars, fileVars, auxVars>>

\* create_sqlite_from_sql: cursor.execute(statement) raises sqlite3.Error
SqliteError ==
    /\ pc = "sink_run" /\ sink = "sqlite"
    /\ Tried < total_statements
    /\ NextFails
    /\ errors' = errors + 1
    /\ logged' = Logged(errors', logged)
    /\ UNCHANGED <<has_create, conn_open, pc, sink, total_statements, failing, executed, pending, committed,
                   sink_result, sanVars, tokVars, recVars, runVars, fileVars, auxVars>>

\* create_sqlite_from_sql: the loop is over, conn.commit()
SqliteCommit ==
    /\ pc = "sink_run" /\ sink = "sqlite"
    /\ Tried >= total_statements
    /\ committed' = committed + pending
    /\ pending' = 0
    /\ pc' = "sink_count"
    /\ UNCHANGED <<has_create, conn_open, sink, total_statements, failing, executed, errors, logged,
                   sink_result, sanVars, tokVars, recVars, runVars, fileVars, auxVars>>

\* create_sqlite_from_sql: SELECT COUNT(*) answers, the path of the file is returned
SqliteCount ==
    /\ pc = "sink_count" /\ sink = "sqlite"
    /\ sink_result' = "ok"
    /\ pc' = "sink_done"
    /\ conn_open' = conn_open - 1
    /\ UNCHANGED <<has_create, sink, total_statements, failing, executed, errors, logged, pending,
                   committed, sanVars, tokVars, recVars, runVars, fileVars, auxVars>>

\* create_sqlite_from_sql: SELECT COUNT(*) raises (the table was never created, its
\* CREATE being among the failures): the database file is removed, None is returned
SqliteCountFails ==
    /\ pc = "sink_count" /\ sink = "sqlite"
    /\ errors > 0
    /\ committed' = 0
    /\ sink_result' = "failed"
    /\ pc' = "sink_done"
    /\ conn_open' \in Unreferenced(conn_open)
    /\ UNCHANGED <<has_create, sink, total_statements, failing, executed, errors, logged, pending,
                   sanVars, tokVars, recVars, runVars, fileVars, auxVars>>

\* create_postgres_from_sql: cursor.execute(insert_sql) succeeds inside a batch
PgExecute ==
    /\ pc = "sink_run" /\ sink = "postgres"
    /\ Tried < total_statements
    /\ pending < BatchSize
    /\ ~NextFails
    /\ executed' = executed + 1
    /\ pending' = pending + 1
    /\ UNCHANGED <<has_create, conn_open, pc, sink, total_statements, failing, errors, logged, committed,
                   sink_result, sanVars, tokVars, recVars, runVars, fileVars, auxVars>>

\* create_postgres_from_sql: cursor.execute(insert_sql) raises: the outer except
\* rolls back, closes the connection and returns False
PgFail ==
    /\ pc = "sink_run" /\ sink = "postgres"
    /\ Tried < total_statements
    /\ pending < BatchSize
    /\ NextFails
    /\ pending' = 0
    /\ sink_result' = "failed"
    /\ pc' = "sink_done"
    /\ conn_open' = conn_open - 1
    /\ UNCHANGED <<has_create, sink, total_statements, failing, executed, errors, logged, committed,
                   sanVars, tokVars, recVars, runVars, fileVars, auxVars>>

\* create_postgres_from_sql: the batch is over, conn.commit()
PgCommit ==
    /\ pc = "sink_run" /\ sink = "postgres"
    /\ pending > 0
    /\ pending = BatchSize \/ Tried >= total_statements
    /\ committed' = committed + pending
    /\ pending' = 0
    /\ UNCHANGED <<has_create, conn_open, pc, sink, total_statements, failing, executed, errors, logged,
                   sink_result, sanVars, tokVars, recVars, runVars, fileVars, auxVars>>

\* create_postgres_from_sql: no batch is left, True is returned
PgFinish ==
    /\ pc = "sink_run" /\ sink = "postgres"
    /\ Tried >= total_statements
    /\ pending = 0
    /\ sink_result' = "ok"
    /\ pc' = "sink_done"
    /\ conn_open' = conn_open - 1
    /\ UNCHANGED <<has_create, sink, total_statements, failing, executed, errors, logged, pending,
                   committed, sanVars, tokVars, recVars, runVars, fileVars, auxVars>>

\* a sink about to execute its first statement
\* a call of create_sqlite_from_sql or create_postgres_from_sql on a file: SQLite
\* executes whatever statements the file has, so has_create matters to PostgreSQL only
InitSink ==
    /\ pc = "sink_call"
    /\ \/ sink = "sqlite" /\ has_create = TRUE
       \/ sink = "postgres" /\ has_create \in BOOLEAN
    /\ conn_open = 0
    /\ total_statements \in SinkTotals
    /\ failing \in FailPatterns
    /\ executed = 0 /\ errors = 0 /\ logged = 0 /\ pending = 0 /\ committed = 0
    /\ sink_result = "running"
    /\ SanIdle /\ TokIdle /\ RecIdle /\ RunIdle /\ FileIdle /\ AuxIdle

\* ask_processing_option: if total_values <= 100: return 0
AskSmallFile ==
    /\ pc = "ask_call" /\ asker = "values"
    /\ total_values <= SmallFile
    /\ ask_result' = <<0>>
    /\ pc' = "ask_done"
    /\ UNCHANGED <<asker, total_values, selection, sanVars, tokVars, recVars, runVars,
                   fileVars, sinkVars, loadVars, headVars, linkVars, nameVars, csvVars>>

\* both functions: the options are printed and the first loop is entered
AskMenu ==
    /\ pc = "ask_call"
    /\ asker = "values" => total_values > SmallFile
    /\ pc' = "ask_select"
    /\ UNCHANGED <<askVars, sanVars, tokVars, recVars, runVars, fileVars, sinkVars,
                   loadVars, headVars, linkVars, nameVars, csvVars>>

\* both functions: selection = Prompt.ask(...) and the if/elif chain after it
AskSelect ==
    /\ pc = "ask_select"
    /\ \E sel \in AskChoices(asker) :
          /\ selection' = sel
          /\ ask_result' = AfterSelection(asker, sel)
    /\ pc' = "ask_done"
    /\ UNCHANGED <<asker, total_values, sanVars, tokVars, recVars, runVars,
                   fileVars, sinkVars, loadVars, headVars, linkVars, nameVars, csvVars>>

InitAsk ==
    /\ pc = "ask_call"
    /\ \/ asker = "values" /\ total_values \in AskTotals
       \/ asker = "sqlite" /\ total_values = 0
    /\ selection = "" /\ ask_result = <<>>
    /\ SanIdle /\ TokIdle /\ RecIdle /\ RunIdle /\ FileIdle /\ SinkIdle /\ LoadIdle /\ HeadIdle /\ LinkIdle /\ NameIdle /\ CsvIdle

\* a call of detect_header(csv_path)
DetectHeader ==
    /\ pc = "header_call"
    /\ header' = detect_header(csv_text, readable)
    /\ pc' = "header_done"
    /\ UNCHANGED <<csv_text, readable, sanVars, tokVars, recVars, runVars, fileVars,
                   sinkVars, askVars, loadVars, linkVars, nameVars, csvVars>>

InitHeader ==
    /\ pc = "header_call"
    /\ csv_text \in HeaderCsvTexts
    /\ readable \in BOOLEAN
    /\ header = None
    /\ SanIdle /\ TokIdle /\ RecIdle /\ RunIdle /\ FileIdle /\ SinkIdle
    /\ AskIdle /\ LoadIdle /\ LinkIdle /\ NameIdle /\ CsvIdle

\* a call of extract_name_from_linkedin_url(url)
ExtractName ==
    /\ pc = "link_call"
    /\ linkedin_name' = extract_name_from_linkedin_url(url)
    /\ pc' = "link_done"
    /\ UNCHANGED <<url, sanVars, tokVars, recVars, runVars, fileVars, sinkVars,
                   askVars, loadVars, headVars, nameVars, csvVars>>

InitLink ==
    /\ pc = "link_call"
    /\ url \in LinkedinUrls
    /\ linkedin_name = None
    /\ SanIdle /\ TokIdle /\ RecIdle /\ RunIdle /\ FileIdle /\ SinkIdle
    /\ AskIdle /\ LoadIdle /\ HeadIdle /\ NameIdle /\ CsvIdle

\* a call of sanitize_name(name)
SanitizeName ==
    /\ pc = "name_call"
    /\ sanitized_name' = sanitize_name(person_name)
    /\ pc' = "name_done"
    /\ UNCHANGED <<person_name, sanVars, tokVars, recVars, runVars, fileVars, sinkVars,
                   askVars, loadVars, headVars, linkVars, csvVars>>

InitName ==
    /\ pc = "name_call"
    /\ person_name \in NameInputs
    /\ sanitized_name = None
    /\ SanIdle /\ TokIdle /\ RecIdle /\ RunIdle /\ FileIdle /\ SinkIdle
    /\ AskIdle /\ LoadIdle /\ HeadIdle /\ LinkIdle /\ CsvIdle

-----------------------------------------------------------------------------
(* convert_to_sql of CSVToSQLConverter (csv_to_sql.py) and of
   CustomCSVToSQLConverter (cli_interactive.py) *)

\* characters outside ASCII that the written texts hold
O_ACUTE == "^o_acute"
I_ACUTE == "^i_acute"
E_ACUTE == "^e_acute"
O_ACUTE_CAPITAL == "^O_acute"
I_ACUTE_CAPITAL == "^I_acute"

S_GENERATED_FROM ==
    <<"-", "-", " ", "A", "r", "c", "h", "i", "v", "o", " ", "S", "Q", "L", " ", "g",
      "e", "n", "e", "r", "a", "d", "o", " ", "d", "e", "s", "d", "e", ":", " ">>
S_GENERATED_AT ==
    <<"-", "-", " ", "G", "e", "n", "e", "r", "a", "d", "o", " ", "e", "l", ":", " ">>
S_CUSTOM_CONVERSION ==
    <<"-", "-", " ", "C", "o", "n", "v", "e", "r", "s", "i", O_ACUTE, "n", " ", "p", "e",
      "r", "s", "o", "n", "a", "l", "i", "z", "a", "d", "a", " ", "c", "o", "n", " ",
      "m", "a", "p", "e", "o", " ", "d", "e", " ", "c", "o", "l", "u", "m", "n", "a",
      "s", NL>>
S_ROBUST_MODE ==
    <<"-", "-", " ", "M", "o", "d", "o", " ", "r", "o", "b", "u", "s", "t", "o", ":",
      " ", "I", "g", "n", "o", "r", "a", " ", "l", I_ACUTE, "n", "e", "a", "s", " ", "m",
      "a", "l", "f", "o", "r", "m", "a", "d", "a", "s", NL, NL>>
S_START_TRANSACTION ==
    <<"-", "-", " ", "S", "t", "a", "r", "t", " ", "t", "r", "a", "n", "s", "a", "c",
      "t", "i", "o", "n", " ", "f", "o", "r", " ", "s", "a", "f", "e", "t", "y", NL>>
S_BEGIN ==
    <<"B", "E", "G", "I", "N", ";", NL, NL>>
S_TABLA ==
    <<"-", "-", " ", "T", "a", "b", "l", "a", ":", " ">>
S_STATISTICS ==
    <<NL, "-", "-", " ", "E", "S", "T", "A", "D", I_ACUTE_CAPITAL, "S", "T", "I", "C",
      "A", "S", " ", "D", "E", " ", "C", "O", "N", "V", "E", "R", "S", "I",
      O_ACUTE_CAPITAL, "N", NL>>
S_TOTAL_OK ==
    <<"-", "-", " ", "T", "o", "t", "a", "l", " ", "d", "e", " ", "r", "e", "g", "i",
      "s", "t", "r", "o", "s", " ", "p", "r", "o", "c", "e", "s", "a", "d", "o", "s",
      " ", "e", "x", "i", "t", "o", "s", "a", "m", "e", "n", "t", "e", ":", " ">>
S_TOTAL_ERRORS ==
    <<"-", "-", " ", "T", "o", "t", "a", "l", " ", "d", "e", " ", "e", "r", "r", "o",
      "r", "e", "s", "/", "l", I_ACUTE, "n", "e", "a", "s", " ", "o", "m", "i", "t", "i",
      "d", "a", "s", ":", " ">>
S_RATE ==
    <<"-", "-", " ", "T", "a", "s", "a", " ", "d", "e", " ", E_ACUTE, "x", "i", "t", "o",
      ":", " ">>
S_CHUNKS ==
    <<"-", "-", " ", "C", "h", "u", "n", "k", "s", " ", "p", "r", "o", "c", "e", "s",
      "a", "d", "o", "s", ":", " ">>
S_FIRST_ERRORS ==
    <<NL, "-", "-", " ", "P", "R", "I", "M", "E", "R", "O", "S", " ", "5", " ", "E", "R",
      "R", "O", "R", "E", "S", " ", "E", "N", "C", "O", "N", "T", "R", "A", "D", "O",
      "S", ":", NL>>
S_ERROR ==
    <<"-", "-", " ", "E", "r", "r", "o", "r", " ">>
S_Chunk ==
    <<"C", "h", "u", "n", "k", " ">>
S_Fila ==
    <<",", " ", "F", "i", "l", "a", " ">>
S_TOTAL_PROCESSED ==
    <<NL, "-", "-", " ", "T", "o", "t", "a", "l", " ", "d", "e", " ", "r", "e", "g", "i",
      "s", "t", "r", "o", "s", " ", "p", "r", "o", "c", "e", "s", "a", "d", "o", "s",
      ":", " ">>
S_COMMIT_LINE ==
    <<"C", "O", "M", "M", "I", "T", ";", NL>>
S_csv_path ==
    <<"d", "a", "t", "a", ".", "c", "s", "v">>
S_sql_name ==
    <<"d", "a", "t", "a", "_", "i", "n", "s", "e", "r", "t", "_", "s", "t", "a", "t",
      "e", "m", "e", "n", "t", "s", ".", "s", "q", "l">>
S_now ==
    <<"2", "0", "2", "4", "-", "0", "1", "-", "0", "1", " ", "0", "0", ":", "0", "0",
      ":", "0", "0">>
S_row_error ==
    <<"b", "a", "d", " ", "v", "a", "l", "u", "e">>

DigitChars == <<"0", "1", "2", "3", "4", "5", "6", "7", "8", "9">>

\* str(n) of an int n >= 0
RECURSIVE Dec(_)
Dec(n) ==
    IF n < 10 THEN <<DigitChars[n + 1]>>
    ELSE Dec(n \div 10) \o <<DigitChars[(n % 10) + 1]>>

\* f"{rate:.2f}" of rate = r[1] / r[2] >= 0: the nearest multiple of 0.01, the even
\* one of the two when both are as near
Fixed2(r) ==
    LET q == (r[1] * 100) \div r[2]
        m == (r[1] * 100) % r[2]
        h == IF 2 * m > r[2] \/ (2 * m = r[2] /\ q % 2 = 1) THEN q + 1 ELSE q
    IN Dec(h \div 100) \o <<".">> \o <<DigitChars[((h \div 10) % 10) + 1]>>
           \o <<DigitChars[(h % 10) + 1]>>

\* CSVToSQLConverter.create_table_sql, which CustomCSVToSQLConverter inherits
create_table_sql(table) == S_TABLA \o table \o <<NL, NL>>

\* values_str of the row at index k, every value escaped
ValuesStr(k) == Dec(k) \o <<",", " ", SQ, "x", SQ>>

\* f"INSERT INTO {self.table_name} ({columns_str}) VALUES ({values_str});\n"
CsvInsertSql(table, names, values_str) ==
    InsertText(table, names, <<"(">> \o values_str \o <<")">>) \o <<NL>>

\* the writes before the rows
CustomHeader(table) ==
    << S_GENERATED_FROM \o S_csv_path \o <<NL>>,
       S_GENERATED_AT \o S_now \o <<NL>>,
       S_CUSTOM_CONVERSION,
       S_ROBUST_MODE,
       create_table_sql(table) >>

BaseHeader(table) ==
    << <<"-", "-", " ">> \o S_sql_name \o <<NL, NL>>,
       S_GENERATED_FROM \o S_csv_path \o <<NL>>,
       S_GENERATED_AT \o S_now \o <<NL, NL>>,
       S_START_TRANSACTION,
       S_BEGIN,
       create_table_sql(table) >>

\* success_rate = (processed_rows / (processed_rows + self.error_count)) * 100
\*                if (processed_rows + self.error_count) > 0 else 100
SuccessRateOfNone(processed, errs) == <<100, 1>>
SuccessRate(processed, errs) ==
    IF processed + errs > 0 THEN <<processed * 100, processed + errs>> ELSE <<100, 1>>

\* skipped_lines[:5]
SkippedShown == 5

\* error_info = f"Chunk {total_chunks}, Fila {idx}: {str(e)[:100]}"
ErrorInfo(chunk, idx) == S_Chunk \o Dec(chunk) \o S_Fila \o Dec(idx) \o <<":", " ">> \o S_row_error

\* the writes after the rows of CustomCSVToSQLConverter.convert_to_sql
CustomFooter(processed, errs, chunks, skipped, rate) ==
    << S_STATISTICS,
       S_TOTAL_OK \o Dec(processed) \o <<NL>>,
       S_TOTAL_ERRORS \o Dec(errs) \o <<NL>>,
       S_RATE \o Fixed2(rate) \o <<"%", NL>>,
       S_CHUNKS \o Dec(chunks) \o <<NL>> >>
    \o (IF errs > 0 /\ Len(skipped) > 0
        THEN <<S_FIRST_ERRORS>>
             \o [k \in 1..MinOf(Len(skipped), SkippedShown) |->
                    S_ERROR \o Dec(k) \o <<":", " ">> \o skipped[k] \o <<NL>>]
        ELSE <<>>)
    \o << <<NL>> \o S_COMMIT_LINE >>

\* the writes after the rows of CSVToSQLConverter.convert_to_sql
BaseFooter(processed) ==
    << S_TOTAL_PROCESSED \o Dec(processed) \o <<NL>>, S_COMMIT_LINE >>

CsvColumns == <<S_id, S_name>>
CsvTable == S_t

\* the last row of the chunk that was read last
ChunkEnd == MinOf(chunks_read * chunk_size, Len(csv_rows))
\* if max_rows and processed_rows >= max_rows
LimitReached == max_rows > 0 /\ processed_rows >= max_rows

\* both: from the call to the last write before the rows
CsvOpen ==
    /\ pc = "csv_call"
    /\ error_count' = 0
    /\ skipped_lines' = <<>>
    /\ sql_file' = IF converter = "custom" THEN CustomHeader(CsvTable)
                   ELSE BaseHeader(CsvTable)
    /\ processed_rows' = 0
    /\ total_chunks' = 0
    /\ pc' = "csv_chunk"
    /\ UNCHANGED <<converter, csv_rows, chunk_size, max_rows, read_error, row_pos,
                   chunks_read, success_rate, csv_result, sanVars, tokVars, recVars,
                   runVars, fileVars, sinkVars, askVars, loadVars, headVars, linkVars,
                   nameVars>>

\* both: the chunk iterator gives a chunk; the limit is tested before its rows
CsvReadChunk ==
    /\ pc = "csv_chunk"
    /\ chunks_read * chunk_size < Len(csv_rows)
    /\ read_error # chunks_read + 1
    /\ chunks_read' = chunks_read + 1
    /\ total_chunks' = IF converter = "custom" THEN total_chunks + 1 ELSE total_chunks
    /\ pc' = IF LimitReached THEN "csv_footer" ELSE "csv_row"
    /\ UNCHANGED <<converter, csv_rows, chunk_size, max_rows, read_error, row_pos,
                   processed_rows, error_count, skipped_lines, sql_file, success_rate,
                   csv_result, sanVars, tokVars, recVars, runVars, fileVars, sinkVars,
                   askVars, loadVars, headVars, linkVars, nameVars>>

\* both: the read of the next chunk raises. CustomCSVToSQLConverter logs it and
\* goes on to the footer; CSVToSQLConverter logs it and raises it again
CsvReadFails ==
    /\ pc = "csv_chunk"
    /\ chunks_read * chunk_size < Len(csv_rows)
    /\ read_error = chunks_read + 1
    /\ IF converter = "custom"
       THEN pc' = "csv_footer" /\ UNCHANGED csv_result
       ELSE pc' = "csv_done" /\ csv_result' = "raised"
    /\ UNCHANGED <<converter, csv_rows, chunk_size, max_rows, read_error, row_pos,
                   chunks_read, processed_rows, error_count, total_chunks,
                   skipped_lines, sql_file, success_rate, sanVars, tokVars, recVars,
                   runVars, fileVars, sinkVars, askVars, loadVars, headVars, linkVars,
                   nameVars>>

\* both: the chunk iterator is exhausted
CsvEndOfFile ==
    /\ pc = "csv_chunk"
    /\ chunks_read * chunk_size >= Len(csv_rows)
    /\ pc' = "csv_footer"
    /\ UNCHANGED <<csvVars, sanVars, tokVars, recVars, runVars, fileVars, sinkVars,
                   askVars, loadVars, headVars, linkVars, nameVars>>

\* both: a row whose values are all escaped is written as one INSERT
CsvRowWritten ==
    /\ pc = "csv_row"
    /\ row_pos < ChunkEnd
    /\ ~LimitReached
    /\ csv_rows[row_pos + 1] = "ok"
    /\ sql_file' = Append(sql_file, CsvInsertSql(CsvTable, CsvColumns, ValuesStr(row_pos)))
    /\ processed_rows' = processed_rows + 1
    /\ row_pos' = row_pos + 1
    /\ UNCHANGED <<converter, csv_rows, chunk_size, max_rows, read_error, chunks_read,
                   error_count, total_chunks, skipped_lines, success_rate, csv_result,
                   pc, sanVars, tokVars, recVars, runVars, fileVars, sinkVars, askVars,
                   loadVars, headVars, linkVars, nameVars>>

\* CustomCSVToSQLConverter: except Exception in the row loop
CsvRowSkipped ==
    /\ pc = "csv_row"
    /\ converter = "custom"
    /\ row_pos < ChunkEnd
    /\ ~LimitReached
    /\ csv_rows[row_pos + 1] = "raises"
    /\ error_count' = error_count + 1
    /\ skipped_lines' = Append(skipped_lines, ErrorInfo(total_chunks, row_pos))
    /\ row_pos' = row_pos + 1
    /\ UNCHANGED <<converter, csv_rows, chunk_size, max_rows, read_error, chunks_read,
                   processed_rows, total_chunks, sql_file, success_rate, csv_result,
                   pc, sanVars, tokVars, recVars, runVars, fileVars, sinkVars, askVars,
                   loadVars, headVars, linkVars, nameVars>>

\* CSVToSQLConverter: the row loop has no handler, convert_to_sql logs and raises
CsvRowRaises ==
    /\ pc = "csv_row"
    /\ converter = "base"
    /\ row_pos < ChunkEnd
    /\ ~LimitReached
    /\ csv_rows[row_pos + 1] = "raises"
    /\ row_pos' = row_pos + 1
    /\ csv_result' = "raised"
    /\ pc' = "csv_done"
    /\ UNCHANGED <<converter, csv_rows, chunk_size, max_rows, read_error, chunks_read,
                   processed_rows, error_count, total_chunks, skipped_lines, sql_file,
                   success_rate, sanVars, tokVars, recVars, runVars, fileVars, sinkVars,
                   askVars, loadVars, headVars, linkVars, nameVars>>

\* both: break out of the row loop at the limit
CsvRowLimit ==
    /\ pc = "csv_row"
    /\ row_pos < ChunkEnd
    /\ LimitReached
    /\ pc' = "csv_chunk"
    /\ UNCHANGED <<csvVars, sanVars, tokVars, recVars, runVars, fileVars, sinkVars,
                   askVars, loadVars, headVars, linkVars, nameVars>>

\* both: the rows of the chunk are exhausted
CsvChunkEnd ==
    /\ pc = "csv_row"
    /\ row_pos >= ChunkEnd
    /\ pc' = "csv_chunk"
    /\ UNCHANGED <<csvVars, sanVars, tokVars, recVars, runVars, fileVars, sinkVars,
                   askVars, loadVars, headVars, linkVars, nameVars>>

\* both: the writes after the rows, and the return
CsvFooter ==
    /\ pc = "csv_footer"
    /\ IF converter = "custom"
       THEN LET rate == SuccessRate(processed_rows, error_count) IN
            /\ success_rate' = rate
            /\ sql_file' = sql_file \o CustomFooter(processed_rows, error_count,
                                                   total_chunks, skipped_lines, rate)
       ELSE /\ UNCHANGED success_rate
            /\ sql_file' = sql_file \o BaseFooter(processed_rows)
    /\ csv_result' = "returned"
    /\ pc' = "csv_done"
    /\ UNCHANGED <<converter, csv_rows, chunk_size, max_rows, read_error, row_pos,
                   chunks_read, processed_rows, error_count, total_chunks,
                   skipped_lines, sanVars, tokVars, recVars, runVars, fileVars,
                   sinkVars, askVars, loadVars, headVars, linkVars, nameVars>>

MaxCsvRows == 4
MaxChunkSize == 2
MaxRowLimit == 2

RECURSIVE RowSeqs(_)
RowSeqs(n) ==
    IF n = 0 THEN {<<>>}
    ELSE RowSeqs(n - 1) \cup
         {Append(r, k) : r \in {x \in RowSeqs(n - 1) : Len(x) = n - 1}, k \in {"ok", "raises"}}

\* counters left by an earlier conversion with the same object are reset by the call
InitCsv ==
    /\ pc = "csv_call"
    /\ converter \in {"base", "custom"}
    /\ csv_rows \in RowSeqs(MaxCsvRows)
    /\ chunk_size \in 1..MaxChunkSize
    /\ max_rows \in 0..MaxRowLimit
    /\ read_error \in 0..((Len(csv_rows) + chunk_size - 1) \div chunk_size)
    /\ row_pos = 0 /\ chunks_read = 0 /\ processed_rows = 0
    /\ error_count \in 0..1
    /\ total_chunks = 0 /\ skipped_lines = <<>> /\ sql_file = <<>>
    /\ success_rate = <<>> /\ csv_result = "running"
    /\ SanIdle /\ TokIdle /\ RecIdle /\ RunIdle /\ FileIdle /\ SinkIdle
    /\ AskIdle /\ LoadIdle /\ HeadIdle /\ LinkIdle /\ NameIdle

-----------------------------------------------------------------------------

NextSan == Sanitize
NextTok == TokBegin \/ TokScan \/ TokLast \/ TokProject \/ TokReturn
NextRec == RecBegin \/ RecScanLine \/ RecLimit \/ RecConvert \/ RecReturn
NextRun == RunSelect \/ RunRename \/ RunTable \/ RunReconstruct \/ RunPgFind
NextParse == Parse
NextRender == Render
NextFlow == RunParsed \/ RunAbort \/ NextRun
NextHeader == DetectHeader
NextLink == ExtractName
NextName == SanitizeName
NextAsk == AskSmallFile \/ AskMenu \/ AskSelect
NextCsv ==
    \/ CsvOpen \/ CsvReadChunk \/ CsvReadFails \/ CsvEndOfFile
    \/ CsvRowWritten \/ CsvRowSkipped \/ CsvRowRaises \/ CsvRowLimit \/ CsvChunkEnd
    \/ CsvFooter
NextSink ==
    \/ SinkConnect \/ PgNoCreate \/ SinkBegin
    \/ SqliteExecute \/ SqliteError \/ SqliteCommit \/ SqliteCount \/ SqliteCountFails
    \/ PgExecute \/ PgFail \/ PgCommit \/ PgFinish

SpecSan == InitSan /\ [][NextSan]_vars
SpecTok == InitTok /\ [][NextTok]_vars
SpecProj == InitProj /\ [][NextTok]_vars
SpecRec == InitRec /\ [][NextRec]_vars
SpecRun == InitRun /\ [][NextRun]_vars
SpecParse == InitParse /\ [][NextParse]_vars
SpecRender == InitRender /\ [][NextRender]_vars
SpecFlow == InitFlow /\ [][NextFlow]_vars
SpecSink == InitSink /\ [][NextSink]_vars
SpecAsk == InitAsk /\ [][NextAsk]_vars
SpecHeader == InitHeader /\ [][NextHeader]_vars
SpecLink == InitLink /\ [][NextLink]_vars
SpecName == InitName /\ [][NextName]_vars
SpecCsv == InitCsv /\ [][NextCsv]_vars

Init == InitSan \/ InitTok \/ InitProj \/ InitRec \/ InitRun \/ InitParse \/ InitRender
            \/ InitFlow \/ InitSink \/ InitAsk
            \/ InitHeader \/ InitLink \/ InitName \/ InitCsv
Next == \/ NextSan \/ NextTok \/ NextRec \/ NextParse \/ NextRender \/ NextFlow
        \/ NextSink \/ NextAsk \/ NextHeader \/ NextLink \/ NextName \/ NextCsv
Spec == Init /\ [][Next]_vars

-----------------------------------------------------------------------------
(* Claims about the tokenizer, the sanitizer and the projection *)

IsPrefix(s, u) == Len(s) <= Len(u) /\ SubSeq(u, 1, Len(s)) = s

\* the scan is about to read the character at position i
AtChar == pc = "tok_scan" /\ i < Len(value_block)

C1_CommaStep ==
    /\ (AtChar /\ value_block[i + 1] = ",") =>
           IF ~in_quotes /\ brace_depth = 0 /\ paren_depth = 0
           THEN /\ values' = Append(values, Strip(current_value))
                /\ current_value' = <<>>
           ELSE /\ values' = values
                /\ current_value' = Append(current_value, ",")
    /\ (AtChar /\ value_block[i + 1] # ",") => values' = values
    /\ pc = "tok_scan" => IsPrefix(values, values')

\* C1: while the tokenizer scans, a comma ends the current field exactly when no
\* quote is open and brace_depth and paren_depth are both zero; any other comma is
\* appended to the current field, no other character ends a field, and the fields
\* already found stay, in order, a prefix of the fields found later.
C1_CommaSplitsOnlyAtTopLevel == [][C1_CommaStep]_vars

\* a run that split at one comma and kept another inside a nested structure
C1_Witness ==
    /\ pc = "tok_project"
    /\ Len(values) = 2
    /\ \E k \in 1..Len(values) : Contains(values[k], <<",">>)

\* C2: once a tuple interior is tokenized, joining the fields with ",", wrapping
\* them in parentheses and tokenizing again gives the same number of fields.
C2_RejoinKeepsFieldCount ==
    pc = "tok_project" =>
        Len(TokenizeBlock(<<"(">> \o Join(values, <<",">>) \o <<")">>)) = Len(values)

\* a single-quoted literal with no quote between its delimiters
IsQuotedLiteral(s) ==
    /\ Len(s) >= 2
    /\ s[1] = SQ
    /\ s[Len(s)] = SQ
    /\ \A k \in 2..(Len(s) - 1) : s[k] # SQ

\* optional sign, digits, at most one decimal point, nothing else
IsBareNumber(s) ==
    LET body == IF s # <<>> /\ s[1] \in {"-", "+"} THEN Tail(s) ELSE s IN
    /\ \A k \in 1..Len(body) : body[k] \in Digits \cup {"."}
    /\ \E k \in 1..Len(body) : body[k] \in Digits
    /\ Cardinality({k \in 1..Len(body) : body[k] = "."}) <= 1

\* C3: every value sanitize_sql_value_with_type returns is NULL, a bare numeric
\* literal, or a single-quoted literal with no single quote inside.
C3_SanitizedShape ==
    pc = "san_done" =>
        \/ sanitized = S_NULL
        \/ IsBareNumber(sanitized)
        \/ IsQuotedLiteral(sanitized)

\* C4: the projected block has one entry per retained index, in the order of
\* kept_indices: the sanitized value at that index of the tuple when the index is
\* within the tuple, NULL otherwise; the returned text is those entries joined.
C4_ProjectionFollowsKeptIndices ==
    pc = "tok_done" =>
        /\ Len(filtered_values) = Len(kept_indices)
        /\ \A k \in 1..Len(kept_indices) :
               filtered_values[k] =
                   IF kept_indices[k] < Len(values)
                   THEN sanitize_sql_value_with_type(
                            values[kept_indices[k] + 1], TypeAt(column_types, k - 1))
                   ELSE S_NULL
        /\ tuple_text = <<"(">> \o Join(filtered_values, <<",", " ">>) \o <<")">>

\* retained [0, 2] on a three-value tuple keeps the first and the third value
C4_Witness ==
    /\ pc = "tok_done"
    /\ kept_indices = <<0, 2>>
    /\ values = <<<<"1">>, <<SQ, "a", ",", "b", SQ>>, <<"x">>>>
    /\ column_types = <<S_TEXT, S_INT>>
    /\ filtered_values = <<<<SQ, "1", SQ>>, <<SQ, "x", SQ>>>>

-----------------------------------------------------------------------------
(* Claims about the schema edit and the statement reconstructor *)

\* the j-th smallest element of a finite set of integers (j from 1)
NthSmallest(S, j) == CHOOSE x \in S : Cardinality({y \in S : y < x}) = j - 1

\* original positions that survive the deletion
Surviving == {k \in 0..(Len(columns) - 1) : k \notin indices_to_remove}

EditReturned == pc \in {"run_write", "run_done"}

\* C5: after the schema edit the column list has one entry per surviving column, in
\* ascending original position whatever the order of selection, and the retained index
\* list main builds is strictly ascending: its i-th entry is the i-th surviving index.
C5_EditKeepsOriginalOrder ==
    /\ pc \in {"run_rename", "run_write", "run_done"} =>
           /\ indices_to_remove = {selected_to_remove[k] - 1 : k \in 1..Len(selected_to_remove)}
           /\ Len(filtered_columns) = Cardinality(Surviving)
           /\ \A j \in 1..Len(filtered_columns) :
                  filtered_columns[j] = columns[NthSmallest(Surviving, j) + 1]
    /\ EditReturned =>
           /\ Len(edited_columns) = Cardinality(Surviving)
           /\ \A j \in 1..Len(edited_columns) :
                  edited_columns[j][1] \in {columns[NthSmallest(Surviving, j) + 1][1], S_renamed}
    /\ (pc = "run_done" /\ entry = "main") =>
           /\ Len(kept_indices) = Len(edited_columns)
           /\ \A j \in 1..Len(kept_indices) : kept_indices[j] = NthSmallest(Surviving, j)
           /\ \A a, b \in 1..Len(kept_indices) : a < b => kept_indices[a] < kept_indices[b]

\* deleting index 1 of three columns: retained [0, 2], the first and third columns
C5_Witness ==
    /\ pc = "run_done"
    /\ entry = "main"
    /\ Len(columns) = 3
    /\ indices_to_remove = {1}
    /\ kept_indices = <<0, 2>>
    /\ edited_columns = <<<<S_id, S_INT>>, <<S_sector, S_TEXT>>>>

\* a line that begins with "(" followed by an integer field and a comma
IsBareTupleLine(line) ==
    LET s == Strip(line) IN
    ~StartsWith(Upper(s), S_INSERT_INTO) /\ TupleHeadMatch(s)

BareTupleLines == {k \in 1..Len(lines) : IsBareTupleLine(lines[k])}

\* VALUES (any letter case) and optional white space end just before position q
ValuesBefore(s, q) ==
    \E p \in 0..(q - 6) :
        /\ Upper(SubSeq(s, p + 1, p + 6)) = S_VALUES
        /\ \A x \in (p + 6)..(q - 1) : s[x + 1] \in WhiteSpace

\* positions of an opening parenthesis that starts a VALUES (...) block
BlockStarts(s) ==
    {q \in 0..(Len(s) - 1) : s[q + 1] = "(" /\ ValuesBefore(s, q) /\ LastClose(s) > q}

\* an INSERT INTO line with a VALUES (...) block
IsInsertLineWithBlock(line) ==
    LET s == Strip(line) IN
    StartsWith(Upper(s), S_INSERT_INTO) /\ BlockStarts(s) # {}

InsertLines == {k \in 1..Len(lines) : IsInsertLineWithBlock(lines[k])}

StatementsOfKind(kind) == SelectSeq(insert_statements, LAMBDA st : st.kind = kind)


\* C6: with max_values = m > 0 and n bare value tuples in the text, exactly min(n, m)
\* statements come from bare tuples, from the first min(n, m) of them in source order,
\* and every INSERT line with a block still has its statement.
C6_CapKeepsFirstTuples ==
    (pc = "rec_done" /\ max_values > 0) =>
        LET emitted == StatementsOfKind("values") IN
        /\ Len(emitted) = MinOf(Cardinality(BareTupleLines), max_values)
        /\ \A j \in 1..Len(emitted) : emitted[j].line = NthSmallest(BareTupleLines, j)
        /\ Len(StatementsOfKind("insert")) = Cardinality(InsertLines)

\* C7: in the statement list the statements from INSERT lines all come before the
\* statements from bare tuples, each group in the order of its source lines, and the
\* returned text is the list joined by newlines, nothing collected being lost.
C7_InsertsFirstThenTuples ==
    /\ \A a, b \in 1..Len(insert_statements) :
           a < b =>
               /\ insert_statements[a].kind = "values" => insert_statements[b].kind = "values"
               /\ insert_statements[a].kind = insert_statements[b].kind =>
                      insert_statements[a].line < insert_statements[b].line
    /\ pc = "rec_done" =>
           /\ Len(insert_statements) = Len(existing_inserts) + Len(values_only)
           /\ insert_sql = Join(Texts(insert_statements), <<NL>>)

\* a bare tuple on an earlier line than an INSERT line, emitted after it
C7_Witness ==
    /\ pc = "rec_done"
    /\ \E a, b \in 1..Len(insert_statements) :
           /\ a < b
           /\ insert_statements[a].kind = "insert"
           /\ insert_statements[b].kind = "values"
           /\ insert_statements[b].line < insert_statements[a].line

\* C8: when the scan over the lines ends, values_only holds exactly the bare tuple
\* lines of the text, whatever their length.
C8_EveryBareTupleCollected ==
    (pc = "rec_scan" /\ line_num = Len(lines)) =>
        \A k \in 1..Len(lines) :
            IsBareTupleLine(lines[k]) <=>
                \E j \in 1..Len(values_only) : values_only[j].line = k

\* C9: every INSERT INTO line with a VALUES (...) block yields exactly one statement,
\* INSERT INTO <table> (<columns>) VALUES <block>; whose block is the text of the line
\* from the opening parenthesis after VALUES to the last closing parenthesis,
\* whatever kept_indices and column_types are.
C9_ExistingInsertCopiedUnchanged ==
    pc = "rec_done" =>
        \A k \in InsertLines :
            LET s == Strip(lines[k])
                got == SelectSeq(insert_statements,
                                 LAMBDA st : st.kind = "insert" /\ st.line = k)
            IN  /\ Len(got) = 1
                /\ \E q \in BlockStarts(s) :
                       got[1].text =
                           InsertText(table_name, column_names,
                                      SubSeq(s, q + 1, LastClose(s) + 1))

\* a two-row INSERT line re-targeted while kept_indices asks for columns 0 and 2
C9_Witness ==
    /\ pc = "rec_done"
    /\ kept_indices = <<0, 2>>
    /\ \E j \in 1..Len(insert_statements) :
           /\ insert_statements[j].kind = "insert"
           /\ Strip(lines[insert_statements[j].line]) = Strip(L_insert_rows)
           /\ EndsWith(insert_statements[j].text,
                       <<"(", "8", ",", " ", SQ, "y", SQ, ")", ",", " ",
                         "(", "9", ",", " ", SQ, "z", SQ, ")", ";">>)

\* the source line of a statement, as the scan cleaned it
SourceTuple(st) ==
    LET s == Strip(SplitLines(sql_text)[st.line]) IN
    IF EndsWith(s, <<",">>) THEN Slice(s, 0, Len(s) - 1) ELSE s

\* the values of the retained columns of a source tuple, one per column of the new
\* schema, each sanitized for its new column type
RetainedValues(st) ==
    LET orig == TokenizeBlock(SourceTuple(st)) IN
    [j \in 1..Cardinality(Surviving) |->
        IF NthSmallest(Surviving, j) < Len(orig)
        THEN sanitize_sql_value_with_type(orig[NthSmallest(Surviving, j) + 1],
                                          edited_columns[j][2])
        ELSE S_NULL]

\* C10: after a repair run in which the user deleted some (not all) columns, every
\* statement built from a bare tuple carries the values of the retained columns only,
\* one per column of the new schema, from either entry point.
C10_RunProjectsRetainedColumns ==
    (pc = "run_done" /\ indices_to_remove # {} /\ edited_columns # <<>>) =>
        \A j \in 1..Len(insert_statements) :
            insert_statements[j].kind = "values" =>
                insert_statements[j].text =
                    InsertText(new_table_name, column_names,
                               TupleText(RetainedValues(insert_statements[j])))

-----------------------------------------------------------------------------
(* Claims about parsing and rendering the schema *)

\* 0-based position of the parenthesis that closes the one open before position k,
\* depth being the number of parentheses open at k; -1 when none closes it
RECURSIVE ClosingFrom(_, _, _)
ClosingFrom(s, k, depth) ==
    IF k >= Len(s) THEN -1
    ELSE IF s[k + 1] = "(" THEN ClosingFrom(s, k + 1, depth + 1)
    ELSE IF s[k + 1] = ")"
    THEN (IF depth = 1 THEN k ELSE ClosingFrom(s, k + 1, depth - 1))
    ELSE ClosingFrom(s, k + 1, depth)

\* the text opens with CREATE TABLE and its first parenthesis is closed
OpensCreateBlock(s) ==
    /\ StartsWith(Upper(s), S_CREATE_TABLE)
    /\ PositionsOf(s, "(") # {}
    /\ ClosingFrom(s, Min(PositionsOf(s, "(")) + 1, 1) >= 0

\* the body of that block: the text between the first parenthesis and the one
\* that closes it
BlockBody(s) ==
    LET o == Min(PositionsOf(s, "(")) IN
    Slice(s, o + 1, ClosingFrom(s, o + 1, 1))

\* the name declared by that block: the last word before the first parenthesis
BlockName(s) ==
    LET ws == SplitWords(Slice(s, 0, Min(PositionsOf(s, "(")))) IN ws[Len(ws)]

\* C11: for a text that opens with a CREATE TABLE [IF NOT EXISTS] name ( body )
\* block, parse_create_table returns that name and one (name, type) pair per
\* non-empty, non-comment line of the whole body, in source order, also when a
\* column type contains parentheses.
C11_CreateTableColumnsParsed ==
    (pc = "parse_done" /\ OpensCreateBlock(sql_text)) =>
        /\ ~parsed.raised
        /\ parsed.table_name = BlockName(sql_text)
        /\ parsed.columns = BodyColumns(BlockBody(sql_text))

-----------------------------------------------------------------------------
(* Claims about numbers, NULL and the last field *)

\* the same letter in capitals
Capital(c) == UpperChar(c)

\* the column type names one of INT, DECIMAL, FLOAT, REAL, NUMERIC in any letter case
NamesNumericType(t) ==
    LET caps == [k \in 1..Len(t) |-> Capital(t[k])] IN
    \E nt \in {S_INT, S_DECIMAL, S_FLOAT, S_REAL, S_NUMERIC} : Contains(caps, nt)

\* C12: a raw value that is a numeric literal is returned unchanged and unquoted when
\* the column type names a numeric type (any letter case) or when no column type is
\* given, and wrapped in single quotes when a column type is given that names none.
C12_NumericPassthrough ==
    (pc = "san_done" /\ value # None /\ IsBareNumber(value)) =>
        IF column_type = None \/ NamesNumericType(column_type)
        THEN sanitized = value
        ELSE sanitized = <<SQ>> \o value \o <<SQ>>

\* a signed decimal passed through for a lower-case numeric type
C12_Witness ==
    /\ pc = "san_done"
    /\ value = <<"-", "1", ".", "1">>
    /\ column_type = S_int
    /\ sanitized = value

\* NULL in any letter case
IsNullWord(s) ==
    /\ Len(s) = 4
    /\ Capital(s[1]) = "N" /\ Capital(s[2]) = "U" /\ Capital(s[3]) = "L" /\ Capital(s[4]) = "L"

\* a text in matching quotes whose inside is blank or NULL
IsQuotedNull(s) ==
    /\ Len(s) >= 2
    /\ s[1] \in {SQ, DQ}
    /\ s[Len(s)] = s[1]
    /\ LET inner == SubSeq(s, 2, Len(s) - 1) IN Strip(inner) = <<>> \/ IsNullWord(inner)

\* C13: whatever the column type, the result is the bare NULL when the raw value is
\* missing, empty or blank, and when the trimmed value is NULL in any letter case;
\* the decision comes before quote stripping, so a quoted NULL or a quoted blank is
\* not turned into the bare NULL.
C13_NullHandling ==
    pc = "san_done" =>
        /\ (value = None \/ Strip(value) = <<>> \/ IsNullWord(Strip(value))) =>
               sanitized = S_NULL
        /\ (value # None /\ IsQuotedNull(Strip(value))) =>
               /\ sanitized # S_NULL
               /\ IsQuotedLiteral(sanitized)

\* a lower-case null for a numeric column
C13_Witness ==
    /\ pc = "san_done"
    /\ value = <<"n", "u", "l", "l">>
    /\ column_type = S_INT
    /\ sanitized = S_NULL

\* C14: when the scan ends, the text after the last separating comma is appended as
\* the final field although no comma ends it, and a blank tuple interior gives no
\* field at all.
C14_LastStep ==
    (pc = "tok_scan" /\ pc' = "tok_project") =>
        values' = IF Strip(value_block) = <<>>
                  THEN <<>>
                  ELSE Append(values, Strip(current_value))

C14_LastFieldAppended == [][C14_LastStep]_vars

-----------------------------------------------------------------------------
(* Claims about the two branches of the tuple conversion *)

\* a line trimmed, minus one trailing comma
AsIsTuple(line) ==
    LET s == Strip(line) IN
    IF EndsWith(s, <<",">>) THEN Slice(s, 0, Len(s) - 1) ELSE s

\* no line of the text is an INSERT INTO line
NoInsertLine ==
    \A k \in 1..Len(lines) : ~StartsWith(Upper(Strip(lines[k])), S_INSERT_INTO)

\* C15: called without retained indices (and without a cap), the reconstructor turns
\* each bare value tuple line into INSERT INTO <table> (<columns>) VALUES <tuple>;
\* where <tuple> is the line trimmed, minus one trailing comma, otherwise as in the
\* source; a text with no INSERT line and no bare tuple gives the empty string.
C15_AsIsBranch ==
    (pc = "rec_done" /\ kept_indices = NoneList /\ max_values = 0) =>
        LET emitted == StatementsOfKind("values") IN
        /\ Len(emitted) = Cardinality(BareTupleLines)
        /\ \A j \in 1..Len(emitted) :
               j <= Cardinality(BareTupleLines) =>
                   emitted[j].text =
                       InsertText(table_name, column_names,
                                  AsIsTuple(lines[NthSmallest(BareTupleLines, j)]))
        /\ (BareTupleLines = {} /\ NoInsertLine) => insert_sql = <<>>

\* the type the claim gives to output position k (from 1)
TypeOfPosition(types, k) ==
    IF types # NoneTypes /\ k <= Len(types) THEN types[k] ELSE None

\* the projected and sanitized values of a source tuple for the retained indices
TypedValues(block, kept, types) ==
    LET orig == TokenizeBlock(block) IN
    [k \in 1..Len(kept) |->
        IF kept[k] < Len(orig)
        THEN sanitize_sql_value_with_type(orig[kept[k] + 1], TypeOfPosition(types, k))
        ELSE S_NULL]

\* C16: whenever retained indices are given to the reconstructor, every statement
\* built from a bare tuple carries one sanitized value per retained index, the value
\* at output position i sanitized with column_types[i], or with no type when
\* column_types is missing or too short.
C16_TypedSanitization ==
    (pc = "rec_done" /\ kept_indices # NoneList) =>
        \A j \in 1..Len(insert_statements) :
            insert_statements[j].kind = "values" =>
                insert_statements[j].text =
                    InsertText(table_name, column_names,
                               TupleText(TypedValues(
                                   AsIsTuple(lines[insert_statements[j].line]),
                                   kept_indices, column_types)))

-----------------------------------------------------------------------------
(* Claims about the parse failure and the rendered CREATE TABLE *)

\* a backtick, an identifier of at least one character, a backtick
HasQuotedIdentifier(line) ==
    \E a, b \in 1..Len(line) :
        /\ a + 1 < b
        /\ line[a] = BT
        /\ line[b] = BT
        /\ \A k \in (a + 1)..(b - 1) : line[k] # BT

\* a column-header line: it starts with "(" and holds a backtick-quoted identifier
IsColumnHeader(line) ==
    LET s == Strip(line) IN StartsWith(s, <<"(">>) /\ HasQuotedIdentifier(s)

\* the stripped lines of the text that are not blank
TextLines(s) ==
    LET ls == SplitLines(s) IN
    SelectSeq([k \in 1..Len(ls) |-> Strip(ls[k])], LAMBDA l : l # <<>>)

NoCreateBlock(s) == ~create_match(s).found

\* the parse has been tried
ParseTried == pc # "run_parse"

\* C17 as stated: the parse raises exactly when the text has no CREATE TABLE block
\* and has no non-blank line or no column-header line anywhere, and then the run
\* ends before the corrected file is opened.
C17_RaisesOnlyWithoutHeader ==
    ParseTried =>
        /\ parsed.raised <=>
               /\ NoCreateBlock(sql_text)
               /\ LET ls == TextLines(sql_text) IN
                  \/ ls = <<>>
                  \/ \A k \in 1..Len(ls) : ~IsColumnHeader(ls[k])
        /\ parsed.raised => pc = "run_exit" /\ out_file = <<>>

\* C17: the parse raises exactly when the text has no CREATE TABLE block and none of
\* its first ten non-blank lines starts with "(" and holds a backtick; the run then
\* ends there, the corrected file never opened, and in every other run the file is
\* written only after the parse returned.
C17_RaisesWithoutHeaderInWindow ==
    /\ ParseTried =>
           /\ parsed.raised <=>
                  /\ NoCreateBlock(sql_text)
                  /\ LET ls == TextLines(sql_text) IN
                     \A k \in 1..Len(ls) :
                         k <= 10 =>
                             ~(ls[k][1] = "(" /\ \E x \in 1..Len(ls[k]) : ls[k][x] = BT)
           /\ parsed.raised => pc = "run_exit" /\ out_file = <<>>
    /\ out_file # <<>> => pc \in {"run_done", "pg_found"} /\ ~parsed.raised

\* a run stopped by a header that is only on the eleventh non-blank line
C17_Witness ==
    /\ pc = "run_exit"
    /\ parsed.raised
    /\ out_file = <<>>
    /\ Len(TextLines(sql_text)) > 10
    /\ IsColumnHeader(TextLines(sql_text)[11])

\* the rendered text cut into its lines, the empty ones left out
RenderedLines == SelectSeq(SplitOn(corrected_sql, NL), LAMBDA l : l # <<>>)

\* the text of a column line: <col> <type>, and a comma unless it is the last
ColumnText(col, last) == col[1] \o <<" ">> \o col[2] \o (IF last THEN <<>> ELSE <<",">>)

\* C18: the rendered text has DROP TABLE IF EXISTS <name>; before CREATE TABLE <name> (,
\* then one <col> <type> line per column in list order, a comma after each but the
\* last, then the closing parenthesis, which no comma directly precedes; also for an
\* empty and for a one-column list.
C18_RenderedCreateTable ==
    pc = "render_done" =>
        LET ls == RenderedLines
            n == Len(edited_columns)
            close == Max(PositionsOf(corrected_sql, ")"))
        IN  /\ Len(ls) = n + 3
            /\ ls[1] = S_DROP \o <<" ">> \o new_table_name \o <<";">>
            /\ ls[2] = S_CREATE_TABLE \o <<" ">> \o new_table_name \o <<" ", "(">>
            /\ \A k \in 1..n : Strip(ls[2 + k]) = ColumnText(edited_columns[k], k = n)
            /\ ls[n + 3] = <<")", ";">>
            /\ ~EndsWith(Strip(Slice(corrected_sql, 0, close)), <<",">>)

\* three columns rendered, one of a type that holds a comma
C18_Witness ==
    /\ pc = "render_done"
    /\ Len(edited_columns) = 3
    /\ edited_columns[3][1] = S_sector
    /\ Contains(edited_columns[3][2], <<",">>)
    /\ EndsWith(RenderedLines[5], <<"2", ")">>)

\* an empty column list rendered
C18_WitnessEmpty == pc = "render_done" /\ edited_columns = <<>> /\ Len(RenderedLines) = 3

-----------------------------------------------------------------------------
(* Claims about the database sinks *)

\* the statements of the load that the database rejects
Rejected == failing \cap (1..total_statements)

\* C19: in both sinks a failing statement is counted, its message shown for the first
\* few failures only, and every later statement is still executed and committed: the
\* load always ends with every statement tried and every accepted one committed.
C19_FailuresRecoveredLocally ==
    /\ logged = (IF errors <= 5 THEN errors ELSE 5)
    /\ (pc = "sink_done" /\ has_create) =>
           /\ errors = Cardinality(Rejected)
           /\ executed = total_statements - Cardinality(Rejected)
           /\ committed = executed
           /\ sink_result = "ok"

\* C20: in both sinks the statements are committed batch by batch, so at every point
\* of the load at most one batch of executed statements is not yet committed.
C20_CommitPerBatch == pending <= 1000

-----------------------------------------------------------------------------
(* Claims about brackets inside quoted strings and about arity *)

Brackets == {"(", ")", "{", "}"}

C30_QuotedBracketStep ==
    (AtChar /\ in_quotes /\ value_block[i + 1] \in Brackets) =>
        /\ paren_depth' = paren_depth
        /\ brace_depth' = brace_depth
        /\ in_quotes'

\* C30: a '(', ')', '{' or '}' read while a quoted string is open leaves paren_depth
\* and brace_depth as they are and leaves the string open, so the depths after the
\* string closes are those before it opened.
C30_QuotedBracketsInert == [][C30_QuotedBracketStep]_vars

\* commas of s from position k on that stand outside single-quoted strings
RECURSIVE TopLevelCommas(_, _, _)
TopLevelCommas(s, k, open) ==
    IF k > Len(s) THEN 0
    ELSE IF s[k] = SQ THEN TopLevelCommas(s, k + 1, ~open)
    ELSE (IF s[k] = "," /\ ~open THEN 1 ELSE 0) + TopLevelCommas(s, k + 1, open)

\* the number of top-level values of a parenthesized tuple
ValueCount(tuple) ==
    LET inner == Slice(tuple, 1, Len(tuple) - 1) IN
    IF Strip(inner) = <<>> THEN 0 ELSE 1 + TopLevelCommas(inner, 1, FALSE)

\* the VALUES tuple of an emitted statement
EmittedTuple(st) ==
    SubSeq(st.text, Len(InsertText(new_table_name, column_names, <<>>)),
           Len(st.text) - 1)

\* the tuple of the source line of a statement
SourceRow(st) ==
    IF st.kind = "insert"
    THEN ValuesBlock(Strip(SplitLines(sql_text)[st.line]))
    ELSE SourceTuple(st)

\* C29: when extract_insert_statements is called with a non-empty kept_indices as
\* long as column_names, every statement it emits from a source row with one value
\* per original column, re-targeted INSERT line or bare tuple, has as many top-level
\* values as its column list has names.
C29_ArityMatchesColumns ==
    (/\ pc = "run_done"
     /\ kept_indices # NoneList /\ kept_indices # <<>>
     /\ Len(kept_indices) = Len(column_names)) =>
        \A j \in 1..Len(insert_statements) :
            ValueCount(SourceRow(insert_statements[j])) = Len(columns) =>
                ValueCount(EmittedTuple(insert_statements[j])) = Len(column_names)

\* the same for the statements derived from bare tuples only
C29_TupleArity ==
    (/\ pc = "run_done"
     /\ kept_indices # NoneList /\ kept_indices # <<>>
     /\ Len(kept_indices) = Len(column_names)) =>
        \A j \in 1..Len(insert_statements) :
            (/\ insert_statements[j].kind = "values"
             /\ ValueCount(SourceRow(insert_statements[j])) = Len(columns)) =>
                ValueCount(EmittedTuple(insert_statements[j])) = Len(column_names)

-----------------------------------------------------------------------------
(* Claims about the record-limit prompts *)

\* the numbers the claim gives for the numbered options
PromptValues(a) ==
    IF a = "values" THEN {100, 10000, 0} ELSE {100, 500, 5000, 0}

\* C28: neither prompt function returns without a number: ask_processing_option
\* returns 0 unasked for at most 100 values, otherwise the number of the chosen
\* option or, for the custom option, an entered n with 1 <= n <= total_values;
\* ask_sqlite_processing_option returns the number of the chosen option or an
\* entered n > 0.
C28_PromptReturnsNumber ==
    pc = "ask_done" =>
        /\ ask_result # <<>>
        /\ (asker = "values" /\ total_values <= 100) => ask_result = <<0>>
        /\ selection \in {"1", "2", "3"} \/ (asker = "sqlite" /\ selection = "4") =>
               ask_result[1] = OptionValue(asker, selection)
        /\ selection = CustomOption(asker) =>
               IF asker = "values"
               THEN ask_result[1] >= 1 /\ ask_result[1] <= total_values
               ELSE ask_result[1] > 0

\* the numbered options and the small file do return the numbers of the claim
C28_NumberedOptions ==
    (pc = "ask_done" /\ selection # CustomOption(asker)) =>
        /\ ask_result # <<>>
        /\ ask_result[1] \in PromptValues(asker)
        /\ selection = "" => ask_result = <<0>>

-----------------------------------------------------------------------------
(* Claims about the database connection and the PostgreSQL load *)

\* C21: on every exit path of the two sinks (success, early return without CREATE
\* TABLE, exception) the connection the operation opened is closed when it returns,
\* and at most one connection is open at any time.
C21_ConnectionReleased ==
    /\ conn_open <= 1
    /\ pc = "sink_done" => conn_open = 0

\* the paths that call conn.close(): a finished load of either sink and a PostgreSQL
\* load that a statement aborted
C21_ClosedWhereCloseIsCalled ==
    (/\ pc = "sink_done"
     /\ sink_result = "ok" \/ (sink = "postgres" /\ has_create)) =>
        conn_open = 0

\* the first n elements of a sequence, all of them when it is shorter
FirstN(s, n) == IF n < Len(s) THEN SubSeq(s, 1, n) ELSE s

\* C22: on a file generated by the repair flow, create_postgres_from_sql finds, to
\* execute them, every INSERT statement of the file when max_inserts is 0 and the
\* first max_inserts of them otherwise.
C22_PostgresFindsEveryInsert ==
    pc = "pg_found" =>
        inserts = IF max_inserts = 0
                  THEN Texts(insert_statements)
                  ELSE FirstN(Texts(insert_statements), max_inserts)

\* no statement with a column list is found
C22_NoneFound == pc = "pg_found" => inserts = <<>>

-----------------------------------------------------------------------------
(* Claims about the CSV helpers *)

\* a text with its capital letters made small
LowerCased(s) == [k \in 1..Len(s) |-> LowerChar(s[k])]

\* the text up to its first line break
FirstLineOf(s) ==
    IF \E k \in 1..Len(s) : s[k] \in {NL, CR}
    THEN SubSeq(s, 1, (CHOOSE k \in 1..Len(s) :
                          /\ s[k] \in {NL, CR}
                          /\ \A j \in 1..(k - 1) : s[j] \notin {NL, CR}) - 1)
    ELSE s

DataMarks ==
    {<<"@">>, <<"h","t","t","p",":","/","/">>, <<"h","t","t","p","s",":","/","/">>,
     <<".","c","o","m">>, <<".","n","e","t">>, <<".","o","r","g">>,
     <<"l","i","n","k","e","d","i","n",".","c","o","m">>, <<"/","i","n","/">>,
     <<"w","w","w",".">>}

SlugOf(u) ==
    LET start == (CHOOSE k \in 1..(Len(u) - 3) :
                     /\ SubSeq(u, k, k + 3) = <<"/", "i", "n", "/">>
                     /\ \A j \in 1..(k - 1) : SubSeq(u, j, j + 3) # <<"/", "i", "n", "/">>) + 4
        stops == {k \in start..Len(u) : u[k] = "/"}
    IN  Strip(SubSeq(u, start, IF stops = {} THEN Len(u) ELSE Min(stops) - 1))

\* the words of a slug: its pieces between hyphens, empty pieces left out
SlugWordsOf(slug) == SelectSeq(SplitOn(slug, "-"), LAMBDA w : w # <<>>)

\* a profile ID: a segment of small letters and digits with a digit in it
IsProfileId(w) ==
    /\ \A k \in 1..Len(w) : w[k] \in (Digits \cup {LowerLetters[j] : j \in 1..26})
    /\ \E k \in 1..Len(w) : w[k] \in Digits

\* the words of the name: all words of the slug but a trailing profile ID
NameWords(u) ==
    LET ws == SlugWordsOf(SlugOf(u)) IN
    IF Len(ws) >= 2 /\ IsProfileId(ws[Len(ws)]) THEN SubSeq(ws, 1, Len(ws) - 1) ELSE ws

HasProfilePath(u) ==
    u # None /\ \E k \in 1..(Len(u) - 3) : SubSeq(u, k, k + 3) = <<"/", "i", "n", "/">>

\* C27: for a URL with '/in/<slug>' the result is the words of the slug, single
\* spaces between them, without a trailing profile ID and with every name word
\* kept; for an empty or missing URL, or one without '/in/', it is None.
C27_LinkedinName ==
    pc = "link_done" =>
        IF ~HasProfilePath(url)
        THEN linkedin_name = None
        ELSE NameWords(url) # <<>> => linkedin_name = Join(NameWords(url), <<" ">>)

\* the same for the slugs that do end in a profile ID, and for the URLs without a
\* profile path
C27_IdRemoved ==
    pc = "link_done" =>
        IF ~HasProfilePath(url)
        THEN linkedin_name = None
        ELSE LET ws == SlugWordsOf(SlugOf(url)) IN
             (Len(ws) >= 2 /\ IsProfileId(ws[Len(ws)])) =>
                 linkedin_name = Join(NameWords(url), <<" ">>)

\* the characters a sanitized name is made of
Plain == {"a","b","c","d","e","f","g","h","i","j","k","l","m","n","o","p","q","r",
          "s","t","u","v","w","x","y","z","0","1","2","3","4","5","6","7","8","9","-"}

\* a non-empty string of a-z, 0-9 and "-" with no "-" at either end and no two in a row
WellShaped(s) ==
    /\ s # <<>>
    /\ \A k \in 1..Len(s) : s[k] \in Plain
    /\ s[1] # "-" /\ s[Len(s)] # "-"
    /\ \A k \in 1..(Len(s) - 1) : ~(s[k] = "-" /\ s[k + 1] = "-")

\* characters that leave no letter and no digit behind
NoLetterOrDigit ==
    {" ", "-", "_", SQ, "!", "@", "#", "$", "%", COMBINING_ACUTE, NL, TAB}

\* C26: sanitize_name returns None or a non-empty string of a-z, 0-9 and '-' that
\* neither starts nor ends with '-' and has no two '-' in a row; None for None, for
\* the empty or blank string and for an input that leaves no letter or digit; and
\* its output, sanitized again, is unchanged.
C26_SanitizedNameShape ==
    pc = "name_done" =>
        /\ sanitized_name = None \/ WellShaped(sanitized_name)
        /\ (person_name = None \/ \A k \in 1..Len(person_name) : person_name[k] \in NoLetterOrDigit) =>
               sanitized_name = None
        /\ sanitized_name # None => sanitize_name(sanitized_name) = sanitized_name

\* a name with an accent or a capital and two separators in a row, made one plain name
C26_Witness ==
    /\ pc = "name_done"
    /\ sanitized_name # None
    /\ sanitized_name # person_name
    /\ \E k \in 1..(Len(person_name) - 1) : person_name[k] \in {" ", "-", "_"} /\ person_name[k + 1] \in {" ", "-", "_"}
    /\ \E k \in 1..Len(sanitized_name) : sanitized_name[k] = "-"

-----------------------------------------------------------------------------
(* Claims about the conversion of a CSV file to SQL *)

\* the writes to the file that are INSERT statements
WrittenInserts == SelectSeq(sql_file, LAMBDA w : StartsWith(w, S_INSERT_INTO_SP))

\* the rows the row loop has taken whose conversion has the outcome o
TakenRows(o) == {k \in 1..row_pos : csv_rows[k] = o}

\* a step of the row loop that takes a row whose conversion raises
C23_RaisingRow ==
    /\ pc = "csv_row" /\ converter = "custom"
    /\ row_pos' = row_pos + 1
    /\ csv_rows[row_pos + 1] = "raises"

C23_Step ==
    C23_RaisingRow =>
        /\ sql_file' = sql_file
        /\ error_count' = error_count + 1
        /\ processed_rows' = processed_rows
        /\ pc' = "csv_row"

C23_End ==
    pc = "csv_done" /\ converter = "custom" =>
        /\ processed_rows + error_count = row_pos
        /\ processed_rows = Cardinality(TakenRows("ok"))
        /\ error_count = Cardinality(TakenRows("raises"))
        /\ Len(WrittenInserts) = processed_rows
        /\ max_rows > 0 => processed_rows <= max_rows
        /\ read_error = 0 => row_pos = Len(csv_rows) \/ LimitReached
        /\ IF row_pos = 0
           THEN success_rate[1] = 100 * success_rate[2]
           ELSE success_rate[1] * row_pos = 100 * processed_rows * success_rate[2]
        /\ \E k \in 1..Len(sql_file) :
               sql_file[k] = S_RATE \o Fixed2(success_rate) \o <<"%", NL>>

\* C23: in CustomCSVToSQLConverter.convert_to_sql a row whose conversion raises writes
\* no INSERT, adds exactly one to the error counter and leaves the row loop running;
\* at the end written rows plus errors is the number of rows attempted, written rows
\* do not exceed max_rows when it is set, and the success rate that is reported is
\* written / (written + errors) as a percentage, 100 when no row was attempted.
C23_SkipAndCount == []C23_End /\ [][C23_Step]_vars

\* a conversion that skipped a row and wrote a later one
C23_Witness ==
    /\ pc = "csv_done" /\ converter = "custom"
    /\ error_count >= 1
    /\ \E j \in 1..row_pos : \E k \in (j + 1)..row_pos :
           csv_rows[j] = "raises" /\ csv_rows[k] = "ok"
    /\ Len(WrittenInserts) >= 1

\* what a write to the file is: a comment, or the statement it starts with
WriteKind(w) ==
    LET t == LStrip(w) IN
    IF StartsWith(t, <<"-", "-">>) THEN "comment"
    ELSE IF StartsWith(Upper(t), S_DROP) THEN "drop"
    ELSE IF StartsWith(Upper(t), S_CREATE_TABLE) THEN "create"
    ELSE IF StartsWith(Upper(t), S_INSERT_INTO_SP) THEN "insert"
    ELSE IF StartsWith(Upper(t), <<"C", "O", "M", "M", "I", "T", ";">>) THEN "commit"
    ELSE "other"

FileKinds == [k \in 1..Len(sql_file) |-> WriteKind(sql_file[k])]

\* kinds[a..b] are all of the kind given
AllOfKind(kinds, a, b, kind) == \A k \in a..b : kinds[k] = kind

\* C24: the file a conversion has written holds, in this order, header comments, a
\* DROP TABLE IF EXISTS and a CREATE TABLE statement, the INSERT statements, a block
\* of statistics comments and COMMIT; as its last statement.
C24_FileStructure ==
    pc = "csv_done" /\ csv_result = "returned" =>
        LET kinds == FileKinds
            n == Len(kinds)
        IN \E d \in 2..(n - 3) : \E e \in (d + 2)..(n - 1) :
               /\ AllOfKind(kinds, 1, d - 1, "comment")
               /\ kinds[d] = "drop"
               /\ kinds[d + 1] = "create"
               /\ AllOfKind(kinds, d + 2, e - 1, "insert")
               /\ AllOfKind(kinds, e, n - 1, "comment")
               /\ kinds[n] = "commit"

\* what the file of CustomCSVToSQLConverter does hold: comments, the INSERT
\* statements, comments, COMMIT; and no statement that makes the table
C24_CustomWithoutTable ==
    pc = "csv_done" /\ csv_result = "returned" /\ converter = "custom" =>
        LET kinds == FileKinds
            n == Len(kinds)
        IN /\ \E d \in 1..(n - 2) : \E e \in (d + 1)..(n - 1) :
                  /\ AllOfKind(kinds, 1, d, "comment")
                  /\ AllOfKind(kinds, d + 1, e - 1, "insert")
                  /\ AllOfKind(kinds, e, n - 1, "comment")
                  /\ kinds[n] = "commit"
           /\ \A k \in 1..n : kinds[k] \notin {"drop", "create"}

====
